---- MODULE Spec2Model ----
(***************************************************************************)
(* Risk classification engine of gaado_backend and its services:          *)
(*   complains_processing/process_risks.py  analyze_risk_local,            *)
(*                                          get_risk_assessment,           *)
(*                                          process_csv                    *)
(*   database/model_parser.py               ModelParser.parse_ai_response  *)
(*   database/database.py                   Database, in-memory mode       *)
(*   playwright_worker/main.py              the browser slots              *)
(* Python strings are TLA+ strings; Len, SubSeq and \o act on them         *)
(* character by character, so substring tests, strip, lower, split, find   *)
(* and the JSON reader are computed, not assumed.                          *)
(***************************************************************************)
EXTENDS Integers, Sequences, FiniteSets, TLC

VARIABLES
    op,                 \* the call in progress, "idle" between calls
    somali_text,        \* arguments of analyze_risk_local / get_risk_assessment
    english_text,
    response,           \* what generate_content did in this call
    raw_response_text,  \* argument of parse_ai_response
    ret,                \* the record returned by the classifier calls
    processed_comment,  \* the value returned by parse_ai_response
    raised,             \* the exception that left the call, "none" if it returned
    log,                \* the messages the call printed or logged, in order
    json_parsed,        \* the json.loads call of this call
    _gemini_client,     \* the module-level client
    clients_constructed,\* how many times genai.Client(...) has been called
    taxonomy,           \* the module-level VALID_CATEGORIES and VALID_RISK_LEVELS
    pc,                 \* where each thread stands in its call
    call,               \* the call each thread makes and its arguments
    returned,           \* what each thread's call returned
    seen,               \* the first result analyze_risk_local gave for a pair
    csv_call,           \* process_csv: the file read and the arguments
    rows,               \* process_csv: the rows read, as the loop leaves them
    results,            \* process_csv: the entries collected for the JSON file
    processed,          \* process_csv: the counters
    skipped,
    json_saved,         \* process_csv: what save_json_results wrote last
    file_saved,         \* process_csv: what save_file wrote
    active_browsers,    \* playwright worker: the module-level counter
    requests,           \* playwright worker: where each request stands
    db,                 \* the Database object in in-memory mode
    db_call,            \* the last save call on it and what it returned
    issued              \* the ids the save calls created, with table and key

frame_vars == <<op, somali_text, english_text, response, raw_response_text, ret,
                processed_comment, raised, log, json_parsed>>

thread_vars == <<pc, call, returned, seen>>

csv_vars == <<csv_call, rows, results, processed, skipped, json_saved, file_saved>>

browser_vars == <<active_browsers, requests>>

db_vars == <<db, db_call, issued>>

service_vars == <<browser_vars, db_vars>>

vars == <<op, somali_text, english_text, response, raw_response_text, ret, processed_comment,
          raised, log, json_parsed, _gemini_client, clients_constructed, taxonomy,
          thread_vars, csv_vars, service_vars>>

(***************************************************************************)
(* Bounds of the explored inputs.                                          *)
(***************************************************************************)
MaxWords == 2

(***************************************************************************)
(* Python str primitives.                                                  *)
(***************************************************************************)
SetMin(S) == CHOOSE m \in S : \A n \in S : m <= n

SetMax(S) == CHOOSE m \in S : \A n \in S : m >= n

CharAt(s, i) == SubSeq(s, i, i)

UpperLetters == "ABCDEFGHIJKLMNOPQRSTUVWXYZ"

LowerLetters == "abcdefghijklmnopqrstuvwxyz"

UpperToLower ==
    [c \in {CharAt(UpperLetters, i) : i \in 1..26} |->
        CharAt(LowerLetters, CHOOSE i \in 1..26 : CharAt(UpperLetters, i) = c)]

LowerToUpper ==
    [c \in {CharAt(LowerLetters, i) : i \in 1..26} |->
        CharAt(UpperLetters, CHOOSE i \in 1..26 : CharAt(LowerLetters, i) = c)]

LowerChar(c) == IF c \in DOMAIN UpperToLower THEN UpperToLower[c] ELSE c

UpperChar(c) == IF c \in DOMAIN LowerToUpper THEN LowerToUpper[c] ELSE c

RECURSIVE Lower(_)
Lower(s) == IF Len(s) = 0 THEN "" ELSE LowerChar(CharAt(s, 1)) \o Lower(SubSeq(s, 2, Len(s)))

RECURSIVE Upper(_)
Upper(s) == IF Len(s) = 0 THEN "" ELSE UpperChar(CharAt(s, 1)) \o Upper(SubSeq(s, 2, Len(s)))

\* keyword in text
Contains(text, keyword) ==
    \E i \in 1..(Len(text) - Len(keyword) + 1) : SubSeq(text, i, i + Len(keyword) - 1) = keyword

StartsWith(s, prefix) == Len(prefix) <= Len(s) /\ SubSeq(s, 1, Len(prefix)) = prefix

EndsWith(s, suffix) == Len(suffix) <= Len(s) /\ SubSeq(s, Len(s) - Len(suffix) + 1, Len(s)) = suffix

\* str.find and str.rfind: 0-based index, -1 when absent
Find(s, sub) ==
    LET hits == {i \in 1..(Len(s) - Len(sub) + 1) : SubSeq(s, i, i + Len(sub) - 1) = sub}
    IN  IF hits = {} THEN -1 ELSE SetMin(hits) - 1

RFind(s, sub) ==
    LET hits == {i \in 1..(Len(s) - Len(sub) + 1) : SubSeq(s, i, i + Len(sub) - 1) = sub}
    IN  IF hits = {} THEN -1 ELSE SetMax(hits) - 1

IsSpace(c) == c \in {" ", "\n", "\t", "\r"}

Strip(s) ==
    LET solid == {i \in 1..Len(s) : ~IsSpace(CharAt(s, i))}
    IN  IF solid = {} THEN "" ELSE SubSeq(s, SetMin(solid), SetMax(solid))

\* The grave accent cannot be written inside a TLA+ string: ^ stands for it
\* throughout, and no other text of the model holds a ^.
BackTick == "^"

Fence == BackTick \o BackTick \o BackTick

\* str.split(sep) for a non-empty separator: the pieces between successive,
\* non-overlapping occurrences of sep, left to right
RECURSIVE Split(_, _)
Split(s, sep) ==
    LET at == Find(s, sep)
    IN  IF at = -1 THEN <<s>>
        ELSE <<SubSeq(s, 1, at)>> \o Split(SubSeq(s, at + Len(sep) + 1, Len(s)), sep)

(***************************************************************************)
(* Taxonomy: VALID_CATEGORIES in dict insertion order, VALID_RISK_LEVELS.  *)
(***************************************************************************)
\* the table with Safety listed under General as well
VALID_CATEGORIES_SharedSubcategory ==
    << [name |-> "Operational Risk",
        subs |-> <<"Technical Failure", "Transaction Issue", "Access & Identity",
                   "System Downtime", "Technical Support">>],
       [name |-> "Reputational Risk",
        subs |-> <<"Customer Service", "Ethical & Trust", "Fee Transparency">>],
       [name |-> "Liquidity Risk",
        subs |-> <<"Withdrawal Limits", "Market Panic", "Currency Availability">>],
       [name |-> "Security & Fraud",
        subs |-> <<"Phishing & Scams", "Account Takeover", "Data Privacy", "Safety">>],
       [name |-> "Compliance & Legal",
        subs |-> <<"Account Freezing", "Regulatory/Sharia">>],
       [name |-> "General",
        subs |-> <<"Neutral", "Spam/Neutral", "Feedback", "Neutral (Competitor)", "Safety">>] >>

VALID_CATEGORIES ==
    << [name |-> "Operational Risk",
        subs |-> <<"Technical Failure", "Transaction Issue", "Access & Identity",
                   "System Downtime", "Technical Support">>],
       [name |-> "Reputational Risk",
        subs |-> <<"Customer Service", "Ethical & Trust", "Fee Transparency">>],
       [name |-> "Liquidity Risk",
        subs |-> <<"Withdrawal Limits", "Market Panic", "Currency Availability">>],
       [name |-> "Security & Fraud",
        subs |-> <<"Phishing & Scams", "Account Takeover", "Data Privacy", "Safety">>],
       [name |-> "Compliance & Legal",
        subs |-> <<"Account Freezing", "Regulatory/Sharia">>],
       [name |-> "General",
        subs |-> <<"Neutral", "Spam/Neutral", "Feedback", "Neutral (Competitor)">>] >>

VALID_RISK_LEVELS == <<"Low", "Medium", "High", "Critical">>

SeqRange(q) == {q[i] : i \in 1..Len(q)}

CategoryNames == {VALID_CATEGORIES[i].name : i \in 1..Len(VALID_CATEGORIES)}

\* category in VALID_CATEGORIES
IsValidCategory(category) == category \in CategoryNames

\* VALID_CATEGORIES.get(category, default)
ValidSubs(category, default) ==
    IF IsValidCategory(category)
    THEN VALID_CATEGORIES[CHOOSE i \in 1..Len(VALID_CATEGORIES) : VALID_CATEGORIES[i].name = category].subs
    ELSE default

(***************************************************************************)
(* analyze_risk_local: keyword tables.                                     *)
(***************************************************************************)
patterns ==
    << [category |-> "Operational Risk", subcategories |-> <<
          [subcategory |-> "Technical Failure",
           keywords |-> <<"crash", "bug", "error", "not working", "broken", "fail",
                          "doesn't work", "not functioning">>],
          [subcategory |-> "Transaction Issue",
           keywords |-> <<"transaction", "debit", "credit", "transfer", "remittance",
                          "money not received", "payment failed", "deducted", "withdrawal">>],
          [subcategory |-> "Access & Identity",
           keywords |-> <<"password", "login", "otp", "sms", "authentication", "blocked",
                          "access", "account locked">>],
          [subcategory |-> "System Downtime",
           keywords |-> <<"system down", "offline", "server", "outage", "not available", "down">>],
          [subcategory |-> "Technical Support",
           keywords |-> <<"how to", "how can", "help", "support", "question", "setup",
                          "create account", "open account">>] >>],
       [category |-> "Reputational Risk", subcategories |-> <<
          [subcategory |-> "Customer Service",
           keywords |-> <<"rude", "ignored", "wait", "slow", "bad service", "poor service",
                          "help me", "customer care", "support">>],
          [subcategory |-> "Ethical & Trust",
           keywords |-> <<"corruption", "scam", "fraud", "thief", "steal", "unfair",
                          "dishonest", "trust", "not trustworthy">>],
          [subcategory |-> "Fee Transparency",
           keywords |-> <<"fee", "charge", "commission", "cost", "hidden", "unexplained",
                          "expensive", "high rate", "deduct">>] >>],
       [category |-> "Liquidity Risk", subcategories |-> <<
          [subcategory |-> "Withdrawal Limits",
           keywords |-> <<"withdraw", "withdrawal", "limit", "cash", "atm", "can't withdraw">>],
          [subcategory |-> "Market Panic",
           keywords |-> <<"take your money", "withdraw now", "close", "bank run", "panic", "get out">>],
          [subcategory |-> "Currency Availability",
           keywords |-> <<"currency", "usd", "dollar", "shortage", "not available">>] >>],
       [category |-> "Security & Fraud", subcategories |-> <<
          [subcategory |-> "Phishing & Scams",
           keywords |-> <<"phishing", "fake", "scam", "fraudulent", "fraud">>],
          [subcategory |-> "Account Takeover",
           keywords |-> <<"hacked", "hack", "stolen", "disappeared", "missing money", "unauthorized">>],
          [subcategory |-> "Data Privacy",
           keywords |-> <<"privacy", "leaked", "data", "personal info", "information", "statement">>],
          [subcategory |-> "Safety",
           keywords |-> <<"safety", "safe", "secure", "security", "theft", "steal", "rob",
                          "afraid", "fear", "danger">>] >>],
       [category |-> "Compliance & Legal", subcategories |-> <<
          [subcategory |-> "Account Freezing",
           keywords |-> <<"frozen", "blocked", "freeze", "can't access", "won't release", "aml", "kyc">>],
          [subcategory |-> "Regulatory/Sharia",
           keywords |-> <<"sharia", "islamic", "halal", "haram", "regulatory", "law",
                          "compliance", "shirk">>] >>],
       [category |-> "General", subcategories |-> <<
          [subcategory |-> "Neutral",
           keywords |-> <<"good", "great", "excellent", "thank", "thanks", "pray", "prayer", "compliment">>],
          [subcategory |-> "Spam/Neutral",
           keywords |-> <<"send me", "money", "dollar", "please send", "help me with money">>],
          [subcategory |-> "Feedback",
           keywords |-> <<"idea", "suggestion", "feature", "improve", "better", "recommend">>],
          [subcategory |-> "Neutral (Competitor)",
           keywords |-> <<"waafi", "dahabshiil", "salaam bank", "competitor", "other bank">>] >>] >>

high_risk_keywords ==
    <<"hacked", "stolen", "fraud", "scam", "corruption", "thief", "steal", "missing money",
      "failed transaction", "money disappeared">>

critical_keywords ==
    <<"bank run", "withdraw everything", "close", "panic", "system down", "outage", "everyone">>

medium_risk_keywords ==
    <<"problem", "issue", "bad", "poor", "slow", "error", "not working", "complaint">>

(***************************************************************************)
(* analyze_risk_local: scoring.                                            *)
(***************************************************************************)
\* combined_text = f"{somali_text} {english_text}".lower()
CombinedText(somali, english) == Lower(somali \o " " \o english)

\* any(keyword in combined_text for keyword in keywords)
AnyKeyword(keywords, combined_text) ==
    \E i \in 1..Len(keywords) : Contains(combined_text, keywords[i])

\* sum(1 for keyword in keywords if keyword in combined_text)
KeywordScore(keywords, combined_text) ==
    Cardinality({i \in 1..Len(keywords) : Contains(combined_text, keywords[i])})

RECURSIVE SumSeq(_)
SumSeq(q) == IF q = <<>> THEN 0 ELSE Head(q) + SumSeq(Tail(q))

RECURSIVE FilterSeq(_, _)
FilterSeq(q, keep) ==
    IF q = <<>> THEN <<>>
    ELSE (IF keep[1] THEN <<Head(q)>> ELSE <<>>) \o FilterSeq(Tail(q), Tail(keep))

\* score of every subcategory of the table: scores[c][j] for patterns[c].subcategories[j]
Scores(combined_text) ==
    [c \in 1..Len(patterns) |->
        [j \in 1..Len(patterns[c].subcategories) |->
            KeywordScore(patterns[c].subcategories[j].keywords, combined_text)]]

\* subcategory_scores: the entries the loop inserts, in insertion order;
\* only scores above 0 are inserted, under the key "<category> > <subcategory>"
SubcategoryScores(scores) ==
    LET entriesOf(c) ==
            LET subs == patterns[c].subcategories
                all  == [j \in 1..Len(subs) |->
                           [key   |-> patterns[c].category \o " > " \o subs[j].subcategory,
                            score |-> scores[c][j]]]
            IN  FilterSeq(all, [j \in 1..Len(subs) |-> all[j].score > 0])
        RECURSIVE upTo(_)
        upTo(c) == IF c = 0 THEN <<>> ELSE upTo(c - 1) \o entriesOf(c)
    IN  upTo(Len(patterns))

\* category_scores: the entries the loop inserts, in insertion order; a
\* category's score is the sum of its subcategories' scores
CategoryScores(scores) ==
    LET all == [c \in 1..Len(patterns) |->
                  [category |-> patterns[c].category, score |-> SumSeq(scores[c])]]
    IN  FilterSeq(all, [c \in 1..Len(patterns) |-> all[c].score > 0])

\* the first category that scored at all, whatever the scores
BestCategory_FirstScored(category_scores) == category_scores[1].category

\* the last entry holding the largest score
BestCategory_LastMax(category_scores) ==
    LET top == SetMax({category_scores[i].score : i \in 1..Len(category_scores)})
    IN  category_scores[SetMax({i \in 1..Len(category_scores) : category_scores[i].score = top})].category

\* max(category_scores, key=...): the first entry holding the largest score
BestCategory(category_scores) ==
    LET top == SetMax({category_scores[i].score : i \in 1..Len(category_scores)})
    IN  category_scores[SetMin({i \in 1..Len(category_scores) : category_scores[i].score = top})].category

\* the loop taking the wrong piece of the split key
RECURSIVE BestSubcategoryLoop_WrongPiece(_, _, _)
BestSubcategoryLoop_WrongPiece(entries, best_category, best) ==
    IF entries = <<>> THEN best
    ELSE LET e == Head(entries)
             take == StartsWith(e.key, best_category \o " >") /\ e.score > best[2]
         IN  BestSubcategoryLoop_WrongPiece(Tail(entries), best_category,
                                 IF take THEN <<Split(e.key, " > ")[1], e.score>> ELSE best)

\* the loop replacing the best subcategory on an equal score too
RECURSIVE BestSubcategoryLoop_TiesToLast(_, _, _)
BestSubcategoryLoop_TiesToLast(entries, best_category, best) ==
    IF entries = <<>> THEN best
    ELSE LET e == Head(entries)
             take == StartsWith(e.key, best_category \o " >") /\ e.score >= best[2]
         IN  BestSubcategoryLoop_TiesToLast(Tail(entries), best_category,
                                 IF take THEN <<Split(e.key, " > ")[2], e.score>> ELSE best)

\* the loop looking for keys equal to the category, which no key is
RECURSIVE BestSubcategoryLoop_ExactKey(_, _, _)
BestSubcategoryLoop_ExactKey(entries, best_category, best) ==
    IF entries = <<>> THEN best
    ELSE LET e == Head(entries)
             take == e.key = best_category /\ e.score > best[2]
         IN  BestSubcategoryLoop_ExactKey(Tail(entries), best_category,
                                 IF take THEN <<Split(e.key, " > ")[2], e.score>> ELSE best)

\* the loop over subcategory_scores.items(): state is <<best_subcategory, best_subcategory_score>>,
\* best_subcategory "None" until an entry of best_category beats the score so far
RECURSIVE BestSubcategoryLoop(_, _, _)
BestSubcategoryLoop(entries, best_category, best) ==
    IF entries = <<>> THEN best
    ELSE LET e == Head(entries)
             take == StartsWith(e.key, best_category \o " >") /\ e.score > best[2]
         IN  BestSubcategoryLoop(Tail(entries), best_category,
                                 IF take THEN <<Split(e.key, " > ")[2], e.score>> ELSE best)

\* the level chain knowing only the one-word critical keywords
RiskLevel_WordsOnly(combined_text) ==
    IF \E i \in 1..Len(critical_keywords) :
          ~Contains(critical_keywords[i], " ") /\ Contains(combined_text, critical_keywords[i])
    THEN "Critical"
    ELSE IF AnyKeyword(high_risk_keywords, combined_text) THEN "High"
    ELSE IF AnyKeyword(medium_risk_keywords, combined_text) THEN "Medium"
    ELSE "Low"

\* the level chain testing the high-risk keywords before the critical ones
RiskLevel_HighFirst(combined_text) ==
    IF AnyKeyword(high_risk_keywords, combined_text) THEN "High"
    ELSE IF AnyKeyword(critical_keywords, combined_text) THEN "Critical"
    ELSE IF AnyKeyword(medium_risk_keywords, combined_text) THEN "Medium"
    ELSE "Low"

RiskLevel(combined_text) ==
    IF AnyKeyword(critical_keywords, combined_text) THEN "Critical"
    ELSE IF AnyKeyword(high_risk_keywords, combined_text) THEN "High"
    ELSE IF AnyKeyword(medium_risk_keywords, combined_text) THEN "Medium"
    ELSE "Low"

Record(category, subcategory, level) ==
    [risk_category |-> category, risk_subcategory |-> subcategory, risk_level |-> level]

\* the classifier grading the severity of a text no pattern keyword matches
analyze_risk_local_GradedFallback(somali, english) ==
    LET combined_text   == CombinedText(somali, english)
        scores          == Scores(combined_text)
        category_scores == CategoryScores(scores)
    IN  IF category_scores = <<>>
        THEN Record("General", "Neutral", RiskLevel(combined_text))
        ELSE LET best_category == BestCategory(category_scores)
                 found == BestSubcategoryLoop(SubcategoryScores(scores), best_category, <<"None", 0>>)
                 best_subcategory ==
                     IF found[1] = "None" THEN ValidSubs(best_category, <<"Neutral">>)[1] ELSE found[1]
             IN  Record(best_category, best_subcategory, RiskLevel(combined_text))

\* the classifier keeping to the neutral record once the API client exists
analyze_risk_local_ClientAware(somali, english) ==
    LET combined_text   == CombinedText(somali, english)
        scores          == Scores(combined_text)
        category_scores == CategoryScores(scores)
    IN  IF category_scores = <<>> \/ _gemini_client # "None"
        THEN Record("General", "Neutral", "Low")
        ELSE LET best_category == BestCategory(category_scores)
                 found == BestSubcategoryLoop(SubcategoryScores(scores), best_category, <<"None", 0>>)
                 best_subcategory ==
                     IF found[1] = "None" THEN ValidSubs(best_category, <<"Neutral">>)[1] ELSE found[1]
             IN  Record(best_category, best_subcategory, RiskLevel(combined_text))

analyze_risk_local(somali, english) ==
    LET combined_text   == CombinedText(somali, english)
        scores          == Scores(combined_text)
        category_scores == CategoryScores(scores)
    IN  IF category_scores = <<>>
        THEN IF AnyKeyword(<<"good", "great", "thank", "pray", "compliment">>, combined_text)
             THEN Record("General", "Neutral", "Low")
             ELSE Record("General", "Neutral", "Low")
        ELSE LET best_category == BestCategory(category_scores)
                 found == BestSubcategoryLoop(SubcategoryScores(scores), best_category, <<"None", 0>>)
                 best_subcategory ==
                     IF found[1] = "None" THEN ValidSubs(best_category, <<"Neutral">>)[1] ELSE found[1]
             IN  Record(best_category, best_subcategory, RiskLevel(combined_text))

(***************************************************************************)
(* Inputs of the local classifier: texts made of a few words.              *)
(***************************************************************************)
LocalWords ==
    {"hacked", "bank", "run", "Everyone", "issue", "Good", "scam", "support"}

RECURSIVE Join(_)
Join(ws) ==
    IF ws = <<>> THEN ""
    ELSE IF Len(ws) = 1 THEN ws[1]
    ELSE ws[1] \o " " \o Join(Tail(ws))

WordSeqs == UNION {[1..n -> LocalWords] : n \in 0..MaxWords}

\* whole comments, as <<somali_text, english_text>>
LocalPhrases ==
    {<<"Bank RUN", "">>,
     <<"waxaa jira bank run", "my account was hacked, big problem">>,
     <<"hacked", "unauthorized">>,
     <<"My account was HACKED", "unauthorized login">>,
     <<"hacked unauthorized login", "password blocked">>,
     <<"Hacked, Unauthorized", "fake scam, pure fraud">>,
     <<"scam scam scam", "one error">>,
     <<"rude staff and slow", "hidden fee">>,
     <<"cash limit", "dollar shortage, no usd">>}

\* a comment: the words before the cut are the Somali text, the rest the translation
LocalInputs ==
    {<<Join(SubSeq(ws, 1, k)), Join(SubSeq(ws, k + 1, Len(ws)))>> : <<ws, k>> \in
        {p \in WordSeqs \X (0..MaxWords) : p[2] <= Len(p[1])}}
    \cup LocalPhrases

(***************************************************************************)
(* JSON text, as json.loads reads it (strict mode).  A value is            *)
(*   [t |-> type, s |-> text, kids |-> members]                            *)
(* t one of "str", "num", "bool", "null", "arr", "obj"; s the string, the  *)
(* number's lexeme or "true"/"false"; kids the elements of an array, or    *)
(* the [k, v] members of an object in source order.  Inputs hold no \b,    *)
(* \f or \uXXXX escapes and no exponents.                                  *)
(***************************************************************************)
JVal(t, s, kids) == [t |-> t, s |-> s, kids |-> kids]

JFail == [ok |-> FALSE, v |-> JVal("null", "", <<>>), p |-> 0]

JOk(v, p) == [ok |-> TRUE, v |-> v, p |-> p]

IsJsonSpace(c) == c \in {" ", "\t", "\n", "\r"}

IsDigit(c) == c \in {"0", "1", "2", "3", "4", "5", "6", "7", "8", "9"}

\* WHITESPACE.match(s, p).end(): the first position at or after p holding no whitespace
RECURSIVE SkipWs(_, _)
SkipWs(s, p) == IF p <= Len(s) /\ IsJsonSpace(CharAt(s, p)) THEN SkipWs(s, p + 1) ELSE p

\* the first position at or after p holding no digit
RECURSIVE SkipDigits(_, _)
SkipDigits(s, p) == IF p <= Len(s) /\ IsDigit(CharAt(s, p)) THEN SkipDigits(s, p + 1) ELSE p

StartsWithAt(s, p, word) == p + Len(word) - 1 <= Len(s) /\ SubSeq(s, p, p + Len(word) - 1) = word

\* NUMBER_RE = (-?(?:0|[1-9]\d*))(\.\d+)?  matched at p; 0 when there is no match,
\* else the position after the match
NumberEnd(s, p) ==
    LET q == IF StartsWithAt(s, p, "-") THEN p + 1 ELSE p
        intEnd == IF StartsWithAt(s, q, "0") THEN q + 1
                  ELSE IF q <= Len(s) /\ IsDigit(CharAt(s, q)) THEN SkipDigits(s, q)
                  ELSE 0
    IN  IF intEnd = 0 THEN 0
        ELSE IF StartsWithAt(s, intEnd, ".") /\ intEnd + 1 <= Len(s) /\ IsDigit(CharAt(s, intEnd + 1))
             THEN SkipDigits(s, intEnd + 1)
             ELSE intEnd

\* scanstring from the character after the opening quote
RECURSIVE ScanString(_, _, _)
ScanString(s, p, acc) ==
    IF p > Len(s) THEN JFail
    ELSE LET c == CharAt(s, p)
         IN  IF c = "\"" THEN JOk(JVal("str", acc, <<>>), p + 1)
             ELSE IF c \in {"\n", "\t", "\r"} THEN JFail
             ELSE IF c = "\\"
                  THEN IF p + 1 > Len(s) THEN JFail
                       ELSE LET e == CharAt(s, p + 1)
                            IN  IF e \in {"\"", "\\", "/"} THEN ScanString(s, p + 2, acc \o e)
                                ELSE IF e = "n" THEN ScanString(s, p + 2, acc \o "\n")
                                ELSE IF e = "t" THEN ScanString(s, p + 2, acc \o "\t")
                                ELSE IF e = "r" THEN ScanString(s, p + 2, acc \o "\r")
                                ELSE JFail
             ELSE ScanString(s, p + 1, acc \o c)

RECURSIVE ScanOnce(_, _)
RECURSIVE ScanMembers(_, _, _)
RECURSIVE ScanElements(_, _, _)

\* JSONObject after a key's opening quote at p - 1: "key" : value, then , or }
ScanMembers(s, p, acc) ==
    LET key == ScanString(s, p, "")
    IN  IF ~key.ok THEN JFail
        ELSE LET colon == SkipWs(s, key.p)
             IN  IF ~StartsWithAt(s, colon, ":") THEN JFail
                 ELSE LET val == ScanOnce(s, SkipWs(s, colon + 1))
                      IN  IF ~val.ok THEN JFail
                          ELSE LET more == acc \o <<[k |-> key.v.s, v |-> val.v]>>
                                   sep  == SkipWs(s, val.p)
                               IN  IF StartsWithAt(s, sep, "}") THEN JOk(JVal("obj", "", more), sep + 1)
                                   ELSE IF ~StartsWithAt(s, sep, ",") THEN JFail
                                   ELSE LET nxt == SkipWs(s, sep + 1)
                                        IN  IF StartsWithAt(s, nxt, "\"")
                                            THEN ScanMembers(s, nxt + 1, more)
                                            ELSE JFail

\* JSONArray from the first element at p: value, then , or ]
ScanElements(s, p, acc) ==
    LET val == ScanOnce(s, p)
    IN  IF ~val.ok THEN JFail
        ELSE LET more == acc \o <<val.v>>
                 sep  == SkipWs(s, val.p)
             IN  IF StartsWithAt(s, sep, "]") THEN JOk(JVal("arr", "", more), sep + 1)
                 ELSE IF ~StartsWithAt(s, sep, ",") THEN JFail
                 ELSE ScanElements(s, SkipWs(s, sep + 1), more)

\* scan_once at p
ScanOnce(s, p) ==
    IF p > Len(s) THEN JFail
    ELSE LET c == CharAt(s, p)
         IN  IF c = "\"" THEN ScanString(s, p + 1, "")
             ELSE IF c = "{"
                  THEN LET q == SkipWs(s, p + 1)
                       IN  IF StartsWithAt(s, q, "}") THEN JOk(JVal("obj", "", <<>>), q + 1)
                           ELSE IF StartsWithAt(s, q, "\"") THEN ScanMembers(s, q + 1, <<>>)
                           ELSE JFail
             ELSE IF c = "["
                  THEN LET q == SkipWs(s, p + 1)
                       IN  IF StartsWithAt(s, q, "]") THEN JOk(JVal("arr", "", <<>>), q + 1)
                           ELSE ScanElements(s, q, <<>>)
             ELSE IF StartsWithAt(s, p, "null") THEN JOk(JVal("null", "", <<>>), p + 4)
             ELSE IF StartsWithAt(s, p, "true") THEN JOk(JVal("bool", "true", <<>>), p + 4)
             ELSE IF StartsWithAt(s, p, "false") THEN JOk(JVal("bool", "false", <<>>), p + 5)
             ELSE IF NumberEnd(s, p) # 0
                  THEN JOk(JVal("num", SubSeq(s, p, NumberEnd(s, p) - 1), <<>>), NumberEnd(s, p))
             ELSE IF StartsWithAt(s, p, "NaN") THEN JOk(JVal("num", "NaN", <<>>), p + 3)
             ELSE IF StartsWithAt(s, p, "Infinity") THEN JOk(JVal("num", "Infinity", <<>>), p + 8)
             ELSE IF StartsWithAt(s, p, "-Infinity") THEN JOk(JVal("num", "-Infinity", <<>>), p + 9)
             ELSE JFail

\* json.loads(s): ok FALSE stands for json.JSONDecodeError
json_loads(s) ==
    LET r == ScanOnce(s, SkipWs(s, 1))
    IN  IF ~r.ok THEN JFail
        ELSE IF SkipWs(s, r.p) # Len(s) + 1 THEN JFail
        ELSE r

\* dict.get(key, default): the last member of that key wins
DictGet(obj, key, default) ==
    LET hits == {i \in 1..Len(obj.kids) : obj.kids[i].k = key}
    IN  IF hits = {} THEN default ELSE obj.kids[SetMax(hits)].v

(***************************************************************************)
(* Python values and exceptions.                                           *)
(***************************************************************************)
\* an Optional[str]
None == [isNone |-> TRUE, s |-> ""]

Some(s) == [isNone |-> FALSE, s |-> s]

\* the classes an exception is an instance of
ExceptionBases(exc) ==
    CASE exc = "JSONDecodeError" -> {"JSONDecodeError", "ValueError", "Exception"}
      [] exc = "AttributeError"  -> {"AttributeError", "Exception"}
      [] exc = "APIError"        -> {"APIError", "Exception"}
      [] exc = "ValidationError" -> {"ValidationError", "ValueError", "Exception"}
      [] OTHER                   -> {exc}

IsInstance(exc, class) == class \in ExceptionBases(exc)

NoJson == [called |-> FALSE, text |-> "", ok |-> FALSE]

\* how a block of code ends: it returns value or raises exc; lg is what it
\* printed, js the json.loads call it made
Outcome(kind, value, exc, lg, js) == [kind |-> kind, value |-> value, exc |-> exc, log |-> lg, json |-> js]

Returns(value, lg, js) == Outcome("return", value, "none", lg, js)

Raises(exc, lg, js) == Outcome("raise", Record("", "", ""), exc, lg, js)

(***************************************************************************)
(* get_risk_assessment, use_api = True.  The response of                   *)
(* client.models.generate_content is                                       *)
(*   [kind, candidates, finish_reason, text, parts]                        *)
(* kind "raise" when the call raised; candidates the number of candidates; *)
(* finish_reason the first candidate's, None or its str(); text is         *)
(* response.text; parts the text of each part of the first candidate's     *)
(* content (<<>> when content or parts is missing).                        *)
(***************************************************************************)
Response(kind, candidates, finish_reason, text, parts) ==
    [kind |-> kind, candidates |-> candidates, finish_reason |-> finish_reason,
     text |-> text, parts |-> parts]

\* the text of the reply
ResponseText(resp) ==
    IF ~resp.text.isNone /\ resp.text.s # "" THEN [exc |-> "none", s |-> Strip(resp.text.s)]
    ELSE IF resp.parts # <<>>
         THEN IF resp.parts[1].isNone THEN [exc |-> "AttributeError", s |-> ""]
              ELSE [exc |-> "none", s |-> Strip(resp.parts[1].s)]
    ELSE [exc |-> "Exception", s |-> ""]

\* fence removal without the brace span
ExtractJsonText_NoSpan(response_text) ==
    IF Contains(response_text, Fence \o "json")
    THEN Strip(Split(Split(response_text, Fence \o "json")[2], Fence)[1])
    ELSE IF Contains(response_text, Fence)
    THEN Strip(Split(Split(response_text, Fence)[2], Fence)[1])
    ELSE response_text

\* markdown fence removal, then the span from the first { to the last }
ExtractJsonText(response_text) ==
    LET unfenced ==
            IF Contains(response_text, Fence \o "json")
            THEN Strip(Split(Split(response_text, Fence \o "json")[2], Fence)[1])
            ELSE IF Contains(response_text, Fence)
            THEN Strip(Split(Split(response_text, Fence)[2], Fence)[1])
            ELSE response_text
        start_idx == Find(unfenced, "{")
        end_idx   == RFind(unfenced, "}")
    IN  IF start_idx # -1 /\ end_idx # -1 /\ end_idx > start_idx
        THEN SubSeq(unfenced, start_idx + 1, end_idx + 1)
        ELSE unfenced

\* the search accepting a name only when it contains the candidate
FuzzyIndex_OneWay(candidate, names) ==
    LET candidate_lower == Lower(candidate)
        hits == {i \in 1..Len(names) : Contains(Lower(names[i]), candidate_lower)}
    IN  IF hits = {} THEN 0 ELSE SetMin(hits)

\* the search keeping the last match instead of breaking at the first
FuzzyIndex_Last(candidate, names) ==
    LET candidate_lower == Lower(candidate)
        hits == {i \in 1..Len(names) :
                    \/ Contains(candidate_lower, Lower(names[i]))
                    \/ Contains(Lower(names[i]), candidate_lower)}
    IN  IF hits = {} THEN 0 ELSE SetMax(hits)

\* the for/else search: index of the first name that contains the candidate or
\* is contained in it, both lowercased; 0 when the loop ends without a break
FuzzyIndex(candidate, names) ==
    LET candidate_lower == Lower(candidate)
        hits == {i \in 1..Len(names) :
                    \/ Contains(candidate_lower, Lower(names[i]))
                    \/ Contains(Lower(names[i]), candidate_lower)}
    IN  IF hits = {} THEN 0 ELSE SetMin(hits)

\* the validation replacing an unknown category by General
ValidateCategory_DefaultGeneral(category) ==
    IF category # "" /\ ~IsValidCategory(category)
    THEN LET names == [i \in 1..Len(VALID_CATEGORIES) |-> VALID_CATEGORIES[i].name]
             hit   == FuzzyIndex(category, names)
         IN  IF hit # 0 THEN [value |-> names[hit], log |-> <<>>]
             ELSE [value |-> "General", log |-> <<"unknown_category">>]
    ELSE [value |-> category, log |-> <<>>]

ValidateCategory(category) ==
    IF category # "" /\ ~IsValidCategory(category)
    THEN LET names == [i \in 1..Len(VALID_CATEGORIES) |-> VALID_CATEGORIES[i].name]
             hit   == FuzzyIndex(category, names)
         IN  IF hit # 0 THEN [value |-> names[hit], log |-> <<>>]
             ELSE [value |-> category, log |-> <<"unknown_category">>]
    ELSE [value |-> category, log |-> <<>>]

ValidateSubcategory(category, subcategory) ==
    IF category # "" /\ subcategory # ""
    THEN LET valid_subs == ValidSubs(category, <<>>)
         IN  IF subcategory \notin SeqRange(valid_subs)
             THEN LET hit == FuzzyIndex(subcategory, valid_subs)
                  IN  IF hit # 0 THEN [value |-> valid_subs[hit], log |-> <<>>]
                      ELSE [value |-> subcategory, log |-> <<"unknown_subcategory">>]
             ELSE [value |-> subcategory, log |-> <<>>]
    ELSE [value |-> subcategory, log |-> <<>>]

\* the level search matching by containment, as the category search does
ValidateLevel_Substring(level) ==
    IF level # "" /\ level \notin SeqRange(VALID_RISK_LEVELS)
    THEN IF FuzzyIndex(level, VALID_RISK_LEVELS) # 0
         THEN [value |-> VALID_RISK_LEVELS[FuzzyIndex(level, VALID_RISK_LEVELS)], log |-> <<>>]
         ELSE [value |-> level, log |-> <<"unknown_level">>]
    ELSE [value |-> level, log |-> <<>>]

ValidateLevel(level) ==
    IF level # "" /\ level \notin SeqRange(VALID_RISK_LEVELS)
    THEN LET level_lower == Lower(level)
             hits == {i \in 1..Len(VALID_RISK_LEVELS) : Lower(VALID_RISK_LEVELS[i]) = level_lower}
         IN  IF hits # {} THEN [value |-> VALID_RISK_LEVELS[SetMin(hits)], log |-> <<>>]
             ELSE [value |-> level, log |-> <<"unknown_level">>]
    ELSE [value |-> level, log |-> <<>>]

\* result.get(key, "").strip(): only a dict has get, only a str has strip
GetStripped(result, key) ==
    IF result.t # "obj" THEN [exc |-> "AttributeError", s |-> ""]
    ELSE LET v == DictGet(result, key, JVal("str", "", <<>>))
         IN  IF v.t # "str" THEN [exc |-> "AttributeError", s |-> ""]
             ELSE [exc |-> "none", s |-> Strip(v.s)]

\* lines 361-403: the fields of the parsed result, validated; js records the json.loads call
ValidateResult(js, result) ==
    LET category    == GetStripped(result, "risk_category")
        subcategory == GetStripped(result, "risk_subcategory")
        level       == GetStripped(result, "risk_level")
    IN  IF category.exc # "none" THEN Raises(category.exc, <<>>, js)
        ELSE IF subcategory.exc # "none" THEN Raises(subcategory.exc, <<>>, js)
        ELSE IF level.exc # "none" THEN Raises(level.exc, <<>>, js)
        ELSE LET c == ValidateCategory(category.s)
                 u == ValidateSubcategory(c.value, subcategory.s)
                 l == ValidateLevel(level.s)
             IN  Returns(Record(c.value, u.value, l.value), c.log \o u.log \o l.log, js)

\* result = json.loads(response_text), parsed being what json.loads made of json_text
LoadsResult(json_text, parsed) ==
    IF ~parsed.ok THEN Raises("JSONDecodeError", <<>>, [called |-> TRUE, text |-> json_text, ok |-> FALSE])
    ELSE ValidateResult([called |-> TRUE, text |-> json_text, ok |-> TRUE], parsed.v)

LoadsAndValidate(json_text) == LoadsResult(json_text, json_loads(json_text))

\* from the fence removal to the return of the validated record
ParseAndValidate(response_text) == LoadsAndValidate(ExtractJsonText(response_text))

\* the try body testing STOP before SAFETY
TryBody_StopFirst(resp) ==
    IF resp.kind = "raise" THEN Raises("APIError", <<>>, NoJson)
    ELSE IF resp.candidates = 0 THEN Raises("Exception", <<>>, NoJson)
    ELSE LET finish_reason_str == IF ~resp.finish_reason.isNone /\ resp.finish_reason.s # ""
                                  THEN resp.finish_reason ELSE None
         IN  IF ~finish_reason_str.isNone /\ Contains(Upper(finish_reason_str.s), "STOP")
             THEN LET text == ResponseText(resp)
                  IN  IF text.exc # "none" THEN Raises(text.exc, <<>>, NoJson)
                      ELSE ParseAndValidate(text.s)
             ELSE IF ~finish_reason_str.isNone /\ Contains(Upper(finish_reason_str.s), "SAFETY")
             THEN Returns(Record("General", "Neutral", "High"), <<"safety_blocked">>, NoJson)
             ELSE IF ~finish_reason_str.isNone
             THEN Returns(Record("", "", ""), <<"unexpected_finish_reason">>, NoJson)
             ELSE LET text == ResponseText(resp)
                  IN  IF text.exc # "none" THEN Raises(text.exc, <<>>, NoJson)
                      ELSE ParseAndValidate(text.s)

\* the try body without the branch for the other finish reasons
TryBody_NoOtherBranch(resp) ==
    IF resp.kind = "raise" THEN Raises("APIError", <<>>, NoJson)
    ELSE IF resp.candidates = 0 THEN Raises("Exception", <<>>, NoJson)
    ELSE LET finish_reason_str == IF ~resp.finish_reason.isNone /\ resp.finish_reason.s # ""
                                  THEN resp.finish_reason ELSE None
         IN  IF ~finish_reason_str.isNone /\ Contains(Upper(finish_reason_str.s), "SAFETY")
             THEN Returns(Record("General", "Neutral", "High"), <<"safety_blocked">>, NoJson)
             ELSE LET text == ResponseText(resp)
                  IN  IF text.exc # "none" THEN Raises(text.exc, <<>>, NoJson)
                      ELSE ParseAndValidate(text.s)

\* the body of the try statement
TryBody(resp) ==
    IF resp.kind = "raise" THEN Raises("APIError", <<>>, NoJson)
    ELSE IF resp.candidates = 0 THEN Raises("Exception", <<>>, NoJson)
    ELSE LET finish_reason_str == IF ~resp.finish_reason.isNone /\ resp.finish_reason.s # ""
                                  THEN resp.finish_reason ELSE None
         IN  IF ~finish_reason_str.isNone /\ Contains(Upper(finish_reason_str.s), "SAFETY")
             THEN Returns(Record("General", "Neutral", "High"), <<"safety_blocked">>, NoJson)
             ELSE IF ~finish_reason_str.isNone /\ ~Contains(Upper(finish_reason_str.s), "STOP")
             THEN Returns(Record("", "", ""), <<"unexpected_finish_reason">>, NoJson)
             ELSE LET text == ResponseText(resp)
                  IN  IF text.exc # "none" THEN Raises(text.exc, <<>>, NoJson)
                      ELSE ParseAndValidate(text.s)

\* the handler with the json.JSONDecodeError clause alone
HandleErrors_JsonOnly(body) ==
    IF body.kind = "return" THEN body
    ELSE IF IsInstance(body.exc, "JSONDecodeError")
         THEN Returns(Record("", "", ""), body.log \o <<"json_parse_error">>, body.json)
    ELSE body

\* the handler with the Exception clause written first
HandleErrors_BroadFirst(body) ==
    IF body.kind = "return" THEN body
    ELSE IF IsInstance(body.exc, "Exception")
         THEN Returns(Record("", "", ""), body.log \o <<"api_error">>, body.json)
    ELSE IF IsInstance(body.exc, "JSONDecodeError")
         THEN Returns(Record("", "", ""), body.log \o <<"json_parse_error">>, body.json)
    ELSE body

\* the except clauses: json.JSONDecodeError first, then Exception
HandleErrors(body) ==
    IF body.kind = "return" THEN body
    ELSE IF IsInstance(body.exc, "JSONDecodeError")
         THEN Returns(Record("", "", ""), body.log \o <<"json_parse_error">>, body.json)
    ELSE IF IsInstance(body.exc, "Exception")
         THEN Returns(Record("", "", ""), body.log \o <<"api_error">>, body.json)
    ELSE body

get_risk_assessment_api(resp) == HandleErrors(TryBody(resp))

\* get_gemini_client: the module-level client after the call
get_gemini_client(client) == IF client # "None" THEN client ELSE "Client"

\* the genai.Client(...) calls one get_gemini_client call makes
ClientsCreated(client) == IF client # "None" THEN 0 ELSE 1

(***************************************************************************)
(* process_csv.  A file is its text, a row the list of its cells; column   *)
(* indices count from 0 as in the source.                                  *)
(***************************************************************************)
\* csv.writer: a cell is quoted when it holds a comma, a quote or a line break,
\* and the quotes inside it are doubled
RECURSIVE DoubleQuotes(_)
DoubleQuotes(cell) ==
    IF cell = "" THEN ""
    ELSE (IF CharAt(cell, 1) = "\"" THEN "\"\"" ELSE CharAt(cell, 1))
         \o DoubleQuotes(SubSeq(cell, 2, Len(cell)))

CsvField(cell) ==
    IF \E i \in 1..Len(cell) : CharAt(cell, i) \in {",", "\"", "\n", "\r"}
    THEN "\"" \o DoubleQuotes(cell) \o "\""
    ELSE cell

RECURSIVE CsvJoin(_)
CsvJoin(row) ==
    IF row = <<>> THEN ""
    ELSE IF Len(row) = 1 THEN CsvField(row[1])
    ELSE CsvField(row[1]) \o "," \o CsvJoin(Tail(row))

\* writer.writerow: a row of one empty cell is written as a pair of quotes
CsvLine(row) == (IF row = <<"">> THEN "\"\"" ELSE CsvJoin(row)) \o "\r\n"

\* writer.writerows(rows) into a file opened with newline=''
RECURSIVE WriteCsv(_)
WriteCsv(rows_) == IF rows_ = <<>> THEN "" ELSE CsvLine(Head(rows_)) \o WriteCsv(Tail(rows_))

\* open(input_file, 'r'): every "\r\n" and every "\r" is read as "\n"
\* the first position from i on that holds one of the stops, or the end
FirstStop(text, i, stops) ==
    IF \E j \in i..Len(text) : CharAt(text, j) \in stops
    THEN CHOOSE j \in i..Len(text) :
            CharAt(text, j) \in stops /\ \A k \in i..(j - 1) : CharAt(text, k) \notin stops
    ELSE Len(text) + 1

RECURSIVE NewlinesFrom(_, _, _)
NewlinesFrom(text, i, j) ==
    IF j > Len(text) THEN SubSeq(text, i, Len(text))
    ELSE SubSeq(text, i, j - 1) \o "\n"
         \o NewlinesFrom(text, IF j < Len(text) /\ CharAt(text, j + 1) = "\n" THEN j + 2 ELSE j + 1,
                         FirstStop(text, j + 1, {"\r"}))

UniversalNewlines(text) == NewlinesFrom(text, 1, FirstStop(text, 1, {"\r"}))

\* csv.reader: at is "record" before the first cell of a row, "start" before a
\* cell, "field" inside an unquoted cell, "quoted" inside a quoted one and
\* "quote" after a quote met inside a quoted one
RECURSIVE CsvScan(_, _, _, _, _, _)
RECURSIVE CsvRun(_, _, _, _, _, _, _)
CsvScan(text, i, at, cell, row, done) ==
    IF i > Len(text)
    THEN IF at = "record" THEN done ELSE Append(done, Append(row, cell))
    ELSE IF CharAt(text, i) = "\n" /\ at # "quoted"
    THEN CsvScan(text, i + 1, "record", "", <<>>,
                 Append(done, IF at = "record" THEN <<>> ELSE Append(row, cell)))
    ELSE IF CharAt(text, i) = "," /\ at # "quoted"
    THEN CsvScan(text, i + 1, "start", "", Append(row, cell), done)
    ELSE IF CharAt(text, i) = "\""
    THEN CASE at \in {"record", "start"} -> CsvScan(text, i + 1, "quoted", "", row, done)
           [] at = "quoted"              -> CsvScan(text, i + 1, "quote", cell, row, done)
           [] at = "quote"               -> CsvScan(text, i + 1, "quoted", cell \o "\"", row, done)
           [] at = "field"               -> CsvScan(text, i + 1, "field", cell \o "\"", row, done)
    ELSE CsvRun(text, i, FirstStop(text, i + 1, IF at = "quoted" THEN {"\""} ELSE {",", "\n", "\""}),
                at, cell, row, done)

\* the cells between i and j are plain text of the cell
CsvRun(text, i, j, at, cell, row, done) ==
    CsvScan(text, j, IF at = "quoted" THEN "quoted" ELSE "field", cell \o SubSeq(text, i, j - 1), row, done)

\* rows = list(csv.reader(f))
ReadCsv(text) == CsvScan(UniversalNewlines(text), 1, "record", "", <<>>, <<>>)

\* headers.index(name) if name in headers else default
RECURSIVE HeaderIndex(_, _, _, _)
HeaderIndex(headers, name, default, i) ==
    IF i > Len(headers) THEN default
    ELSE IF headers[i] = name THEN i - 1
    ELSE HeaderIndex(headers, name, default, i + 1)

ColumnIndices(headers) ==
    [somali      |-> HeaderIndex(headers, "Somali", 0, 1),
     english     |-> HeaderIndex(headers, "English", 1, 1),
     category    |-> HeaderIndex(headers, "risk_category", 2, 1),
     subcategory |-> HeaderIndex(headers, "risk_subcategory", 3, 1),
     level       |-> HeaderIndex(headers, "risk_level", 4, 1)]

\* RowEmpty without the strip
RowEmpty_NoStrip(row, idx) ==
    row = <<>> \/ Len(row) <= idx.somali \/ row[idx.somali + 1] = ""

\* not row or len(row) <= somali_idx or not row[somali_idx].strip()
RowEmpty(row, idx) ==
    row = <<>> \/ Len(row) <= idx.somali \/ Strip(row[idx.somali + 1]) = ""

\* len(row) > category_idx and row[category_idx].strip()
RowFilled(row, idx) ==
    Len(row) > idx.category /\ Strip(row[idx.category + 1]) # ""

\* while len(row) <= level_idx: row.append("")
ExtendRow(row, level_idx) ==
    [i \in 1..(IF Len(row) > level_idx THEN Len(row) ELSE level_idx + 1) |->
        IF i <= Len(row) THEN row[i] ELSE ""]

ResultEntry(i, somali, english, a) ==
    [row_number |-> i, somali |-> somali, english |-> english,
     risk_category |-> a.risk_category, risk_subcategory |-> a.risk_subcategory,
     risk_level |-> a.risk_level]

\* a file not written, a file written
NoFile == [written |-> FALSE, content |-> <<>>]

SavedFile(content) == [written |-> TRUE, content |-> content]

\* the output file not written, the output file written with this text
NoText == [written |-> FALSE, content |-> ""]

SavedText(text) == [written |-> TRUE, content |-> text]

\* the state of the loop of process_csv; calls counts the get_risk_assessment calls
CsvState(rows_, results_, processed_, skipped_, json_, exc) ==
    [rows |-> rows_, results |-> results_, processed |-> processed_, skipped |-> skipped_,
     json_saved |-> json_, file_saved |-> NoText, calls |-> processed_, exc |-> exc]

SkipRow(st) == [st EXCEPT !.skipped = st.skipped + 1]

\* the three cell assignments, the entry and the save of every fifth row
FillRow(st, i, idx, row, somali, english, a) ==
    IF idx.category >= Len(row)
    THEN [st EXCEPT !.rows[i + 1] = row, !.calls = st.calls + 1, !.exc = "IndexError"]
    ELSE IF idx.subcategory >= Len(row)
    THEN [st EXCEPT !.rows[i + 1] = [row EXCEPT ![idx.category + 1] = a.risk_category],
                    !.calls = st.calls + 1, !.exc = "IndexError"]
    ELSE [st EXCEPT !.rows[i + 1] = [row EXCEPT ![idx.category + 1] = a.risk_category,
                                                ![idx.subcategory + 1] = a.risk_subcategory,
                                                ![idx.level + 1] = a.risk_level],
                    !.results = Append(st.results, ResultEntry(i, somali, english, a)),
                    !.processed = st.processed + 1,
                    !.calls = st.calls + 1,
                    !.json_saved = IF (st.processed + 1) % 5 = 0
                                   THEN SavedFile(Append(st.results, ResultEntry(i, somali, english, a)))
                                   ELSE st.json_saved]

\* get_risk_assessment(somali_text, english_text, use_api=use_api)
RowAssessment(mode, i, somali, english) ==
    IF mode.use_api THEN get_risk_assessment_api(mode.resps[i]).value
    ELSE analyze_risk_local(somali, english)

\* the extended row is skipped when its Somali text is empty, assessed otherwise
AssessRow(st, i, idx, row, mode, somali, english) ==
    IF somali = "" THEN SkipRow([st EXCEPT !.rows[i + 1] = row])
    ELSE FillRow(st, i, idx, row, somali, english, RowAssessment(mode, i, somali, english))

\* one pass of the loop body on data row i
ProcessRow(st, i, idx, mode) ==
    IF RowEmpty(st.rows[i + 1], idx) THEN SkipRow(st)
    ELSE IF RowFilled(st.rows[i + 1], idx) THEN SkipRow(st)
    ELSE AssessRow(st, i, idx, ExtendRow(st.rows[i + 1], idx.level), mode,
                   Strip(ExtendRow(st.rows[i + 1], idx.level)[idx.somali + 1]),
                   IF Len(ExtendRow(st.rows[i + 1], idx.level)) > idx.english
                   THEN Strip(ExtendRow(st.rows[i + 1], idx.level)[idx.english + 1]) ELSE "")

RECURSIVE ProcessRows(_, _, _, _)
ProcessRows(st, i, idx, mode) ==
    IF st.exc # "none" \/ i > Len(st.rows) - 1 THEN st
    ELSE ProcessRows(ProcessRow(st, i, idx, mode), i + 1, idx, mode)

\* the final save_json_results and the optional save_file
FinalSave(st, output_file) ==
    IF st.exc # "none" THEN st
    ELSE [st EXCEPT !.json_saved = SavedFile(st.results),
                    !.file_saved = IF output_file THEN SavedText(WriteCsv(st.rows)) ELSE NoText]

\* process_csv from the rows read on
ProcessTable(rows_, output_file, mode) ==
    IF rows_ = <<>> THEN CsvState(<<>>, <<>>, 0, 0, NoFile, "none")
    ELSE FinalSave(ProcessRows(CsvState(rows_, <<>>, 0, 0, NoFile, "none"), 1,
                               ColumnIndices(rows_[1]), mode),
                   output_file)

process_csv(input_file, output_file, mode) == ProcessTable(ReadCsv(input_file), output_file, mode)

(***************************************************************************)
(* ModelParser.parse_ai_response.                                          *)
(***************************************************************************)
\* bool(v)
Truthy(v) ==
    CASE v.t = "str"  -> v.s # ""
      [] v.t = "num"  -> v.s \notin {"0", "-0", "0.0", "-0.0"}
      [] v.t = "bool" -> v.s = "true"
      [] v.t = "null" -> FALSE
      [] v.t \in {"arr", "obj"} -> v.kids # <<>>

\* str(v), for the scalars (numbers are written the way Python prints them)
PyStr(v) ==
    CASE v.t = "str"  -> v.s
      [] v.t = "num"  -> (CASE v.s = "NaN" -> "nan" [] v.s = "Infinity" -> "inf"
                            [] v.s = "-Infinity" -> "-inf" [] OTHER -> v.s)
      [] v.t = "bool" -> (IF v.s = "true" THEN "True" ELSE "False")
      [] v.t = "null" -> "None"

DigitValue(c) == CHOOSE d \in 0..9 : CharAt("0123456789", d + 1) = c

RECURSIVE DigitsValue(_)
DigitsValue(ds) ==
    IF Len(ds) = 0 THEN 0
    ELSE 10 * DigitsValue(SubSeq(ds, 1, Len(ds) - 1)) + DigitValue(CharAt(ds, Len(ds)))

\* a float: kind "num" with h its value in hundredths, or "nan", "inf", "-inf"
Float(kind, h) == [kind |-> kind, h |-> h]

NoFloat == Float("none", 0)

\* the value of a decimal lexeme  -?digits(.digits)?  of at most two decimals
DecimalValue(lexeme) ==
    LET neg   == StartsWith(lexeme, "-")
        body  == IF neg THEN SubSeq(lexeme, 2, Len(lexeme)) ELSE lexeme
        dot   == Find(body, ".")
        whole == IF dot = -1 THEN body ELSE SubSeq(body, 1, dot)
        frac  == IF dot = -1 THEN "" ELSE SubSeq(body, dot + 2, Len(body))
        cents == IF Len(frac) = 0 THEN 0
                 ELSE IF Len(frac) = 1 THEN 10 * DigitsValue(frac)
                 ELSE DigitsValue(SubSeq(frac, 1, 2))
        mag   == 100 * DigitsValue(whole) + cents
    IN  IF neg THEN 0 - mag ELSE mag

IsDecimal(lexeme) == Len(lexeme) > 0 /\ NumberEnd(lexeme, 1) = Len(lexeme) + 1

\* float(v): a number is itself, a bool 1.0 or 0.0, a str is stripped and read
\* as nan, inf or infinity (any letter case, signed) or as a decimal
\* (ValueError otherwise), anything else is a TypeError.  Inputs hold no
\* string with an exponent, an underscore or a bare leading or trailing dot.
ToFloat(v) ==
    CASE v.t = "num" ->
            (CASE v.s = "NaN"       -> [exc |-> "none", f |-> Float("nan", 0)]
               [] v.s = "Infinity"  -> [exc |-> "none", f |-> Float("inf", 0)]
               [] v.s = "-Infinity" -> [exc |-> "none", f |-> Float("-inf", 0)]
               [] OTHER             -> [exc |-> "none", f |-> Float("num", DecimalValue(v.s))])
      [] v.t = "bool" -> [exc |-> "none", f |-> Float("num", IF v.s = "true" THEN 100 ELSE 0)]
      [] v.t = "str"  ->
            (CASE Lower(Strip(v.s)) \in {"nan", "+nan", "-nan"} -> [exc |-> "none", f |-> Float("nan", 0)]
               [] Lower(Strip(v.s)) \in {"inf", "+inf", "infinity", "+infinity"} ->
                      [exc |-> "none", f |-> Float("inf", 0)]
               [] Lower(Strip(v.s)) \in {"-inf", "-infinity"} -> [exc |-> "none", f |-> Float("-inf", 0)]
               [] IsDecimal(Strip(v.s)) -> [exc |-> "none", f |-> Float("num", DecimalValue(Strip(v.s)))]
               [] OTHER -> [exc |-> "ValueError", f |-> NoFloat])
      [] OTHER        -> [exc |-> "TypeError", f |-> NoFloat]

\* the range check of lines 61-66 on c, the outcome of float(confidence_score);
\* a NaN compares false both ways
CheckedScore(c) ==
    IF c.exc # "none" THEN [f |-> NoFloat, log |-> <<"invalid_confidence_score">>]
    ELSE IF c.f.kind = "-inf" \/ (c.f.kind = "num" /\ c.f.h < 0)
         THEN [f |-> Float("num", 0), log |-> <<"confidence_score_out_of_range">>]
    ELSE IF c.f.kind = "inf" \/ (c.f.kind = "num" /\ c.f.h > 100)
         THEN [f |-> Float("num", 100), log |-> <<"confidence_score_out_of_range">>]
    ELSE [f |-> c.f, log |-> <<>>]

\* confidence_score: coerced, clamped into [0.0, 1.0]
ConfidenceScore(v) ==
    IF v.t = "null" THEN [f |-> NoFloat, log |-> <<>>] ELSE CheckedScore(ToFloat(v))

JNull == JVal("null", "", <<>>)

\* the markdown fence removal of parse_ai_response
StripFences(response_text) ==
    LET text    == Strip(response_text)
        opened  == IF StartsWith(text, Fence \o "json") THEN SubSeq(text, 8, Len(text))
                   ELSE IF StartsWith(text, Fence) THEN SubSeq(text, 4, Len(text))
                   ELSE text
        closed  == IF EndsWith(opened, Fence) THEN SubSeq(opened, 1, Len(opened) - 3) ELSE opened
    IN  Strip(closed)

\* an Optional[str] field of ProcessedCommentCreate accepts None or a str
IsOptionalStr(v) == v.t \in {"null", "str"}

OptionalStr(v) == IF v.t = "null" THEN None ELSE Some(v.s)

NoComment ==
    [isNone |-> TRUE, raw_comment_id |-> 0, translation_en |-> None, threat_level_slug |-> None,
     confidence_score |-> NoFloat, risk |-> None, is_reviewed |-> FALSE]

\* ProcessedCommentCreate(...): the model, or a ValidationError
ProcessedCommentCreate(raw_comment_id, translation_en, threat_level_slug, confidence_score, risk) ==
    IF /\ IsOptionalStr(translation_en)
       /\ IsOptionalStr(threat_level_slug)
       /\ IsOptionalStr(risk)
       /\ confidence_score.kind # "nan"
       /\ (confidence_score.kind = "num" => (confidence_score.h >= 0 /\ confidence_score.h <= 100))
    THEN [exc |-> "none",
          model |-> [isNone |-> FALSE, raw_comment_id |-> raw_comment_id,
                     translation_en |-> OptionalStr(translation_en),
                     threat_level_slug |-> OptionalStr(threat_level_slug),
                     confidence_score |-> confidence_score,
                     risk |-> OptionalStr(risk), is_reviewed |-> FALSE]]
    ELSE [exc |-> "ValidationError", model |-> NoComment]

\* str(v).strip() of a truthy field, the field itself otherwise
StrStripped(v) == IF Truthy(v) THEN JVal("str", Strip(PyStr(v)), <<>>) ELSE v

\* threat_level_slug: lowercased as well
ThreatLevelSlug(v) == IF Truthy(v) THEN JVal("str", Lower(Strip(PyStr(v))), <<>>) ELSE v

\* the return of the model made, or its ValidationError
ParserReturn(js, lg, made) ==
    IF made.exc # "none" THEN Raises(made.exc, lg, js)
    ELSE Returns(made.model, lg \o <<"parsed">>, js)

ParserCreate(js, raw_comment_id, translation_en, threat_level_slug, confidence, risk) ==
    ParserReturn(js, confidence.log,
                 ProcessedCommentCreate(raw_comment_id, translation_en, threat_level_slug,
                                        confidence.f, risk))

\* the fields made into a model, the slug taken from category when threat_level is absent
ParserBuild_SlugFromCategory(js, parsed_data, raw_comment_id) ==
    IF parsed_data.t # "obj" THEN Raises("AttributeError", <<>>, js)
    ELSE ParserCreate(js, raw_comment_id,
                      DictGet(parsed_data, "english_text", JNull),
                      ThreatLevelSlug(DictGet(parsed_data, "threat_level",
                                              DictGet(parsed_data, "category", JNull))),
                      ConfidenceScore(DictGet(parsed_data, "confidence_score", JNull)),
                      StrStripped(DictGet(parsed_data, "risk", JNull)))

\* lines 49-90: the fields of parsed_data made into a ProcessedCommentCreate
ParserBuild(js, parsed_data, raw_comment_id) ==
    IF parsed_data.t # "obj" THEN Raises("AttributeError", <<>>, js)
    ELSE ParserCreate(js, raw_comment_id,
                      DictGet(parsed_data, "english_text", JNull),
                      ThreatLevelSlug(DictGet(parsed_data, "threat_level", JNull)),
                      ConfidenceScore(DictGet(parsed_data, "confidence_score", JNull)),
                      StrStripped(DictGet(parsed_data, "risk", JNull)))

\* parsed_data = json.loads(text), parsed being what json.loads made of text
ParserLoadsResult(text, parsed, raw_comment_id) ==
    IF ~parsed.ok THEN Raises("JSONDecodeError", <<>>, [called |-> TRUE, text |-> text, ok |-> FALSE])
    ELSE ParserBuild([called |-> TRUE, text |-> text, ok |-> TRUE], parsed.v, raw_comment_id)

ParserLoads(text, raw_comment_id) == ParserLoadsResult(text, json_loads(text), raw_comment_id)

\* the body of the try statement
ParserTryBody(response_text, raw_comment_id) == ParserLoads(StripFences(response_text), raw_comment_id)

\* the except clauses: json.JSONDecodeError first, then Exception; both return None
ParserHandleErrors(body) ==
    IF body.kind = "return" THEN body
    ELSE IF IsInstance(body.exc, "JSONDecodeError")
         THEN Returns(NoComment, body.log \o <<"json_parse_error">>, body.json)
    ELSE IF IsInstance(body.exc, "Exception")
         THEN Returns(NoComment, body.log \o <<"parse_error">>, body.json)
    ELSE body

parse_ai_response(response_text, raw_comment_id) ==
    ParserHandleErrors(ParserTryBody(response_text, raw_comment_id))

(***************************************************************************)
(* Replies of the model: JSON objects, the ways they arrive wrapped, and   *)
(* malformed text.                                                         *)
(***************************************************************************)
MaxProse == 1

Quote(s) == "\"" \o s \o "\""

\* a field of a JSON object text: left out, a string, or another literal
Missing == [present |-> FALSE, json |-> ""]

Str(s) == [present |-> TRUE, json |-> Quote(s)]

Raw(literal) == [present |-> TRUE, json |-> literal]

RECURSIVE JoinComma(_)
JoinComma(parts) ==
    IF parts = <<>> THEN ""
    ELSE IF Len(parts) = 1 THEN parts[1]
    ELSE parts[1] \o ", " \o JoinComma(Tail(parts))

\* the text of the object holding the fields that are present, in the order given
ObjectText(keys, values) ==
    LET all == [i \in 1..Len(keys) |-> Quote(keys[i]) \o ": " \o values[i].json]
    IN  "{" \o JoinComma(FilterSeq(all, [i \in 1..Len(keys) |-> values[i].present])) \o "}"

CategoryValues ==
    {Missing, Raw("null"), Raw("5"), Str(""), Str("Security & Fraud"), Str("Reputational"),
     Str("risk"), Str("a SECURITY & FRAUD case"), Str("Foo"), Str(" General ")}

SubcategoryValues ==
    {Missing, Raw("[]"), Str(""), Str("Account Takeover"), Str("neutral"), Str("spam/neutral"), Str("Bar")}

LevelValues == {Missing, Raw("3"), Str("High"), Str("high"), Str("very high")}

RiskObjects ==
    {ObjectText(<<"risk_category", "risk_subcategory", "risk_level">>, <<c, u, l>>) :
        c \in CategoryValues, u \in SubcategoryValues, l \in LevelValues}

SpecialObjects ==
    {"{}",
     "{\"risk_level\": \"low\", \"risk_level\": \"Critical\"}",
     "{\"risk_category\": \"General\", \"meta\": {\"tags\": [1, 2]}}",
     "{\"risk_category\": \"a}b{c\", \"risk_level\": \"Low\"}",
     "{\n  \"risk_category\": \"Liquidity Risk\",\n  \"risk_subcategory\": \"panic\"\n}"}

JsonObjects == RiskObjects \cup SpecialObjects

ProseSentences == <<"Sure, here you go:", "Hope that helps!", "Thanks.", "Note: JSON only.">>

\* n sentences of prose, none holding a brace or a fence
RECURSIVE Prose(_)
Prose(n) ==
    IF n = 0 THEN ""
    ELSE Prose(n - 1) \o (IF n = 1 THEN "" ELSE " ") \o ProseSentences[((n - 1) % Len(ProseSentences)) + 1]

Forms ==
    {[kind |-> "plain", before |-> 0, after |-> 0],
     [kind |-> "json_fence", before |-> 0, after |-> 0],
     [kind |-> "bare_fence", before |-> 0, after |-> 0]}
    \cup {[kind |-> "prose", before |-> n, after |-> m] : <<n, m>> \in
             {q \in (0..MaxProse) \X (0..MaxProse) : q # <<0, 0>>}}

\* the object text J as the reply presents it
Wrap(form, J) ==
    CASE form.kind = "plain"      -> J
      [] form.kind = "json_fence" -> Fence \o "json\n" \o J \o "\n" \o Fence
      [] form.kind = "bare_fence" -> Fence \o "\n" \o J \o "\n" \o Fence
      [] form.kind = "prose"      ->
            (IF form.before = 0 THEN "" ELSE Prose(form.before) \o " ") \o J
            \o (IF form.after = 0 THEN "" ELSE " " \o Prose(form.after))

WrappedObjects == {[text |-> Wrap(f, J), form |-> f, J |-> J] : f \in Forms, J \in JsonObjects}

MalformedTexts ==
    {"", "   ", "not json at all", "{\"risk_category\": \"Gen", "[1, 2]", "\"General\"", "42", "null",
     "{\"risk_category\": }", "{\"risk_category\": \"General\",}", "}{", Fence,
     Fence \o "json\n" \o Fence, Fence \o "json\n{\"risk_category\": \"General\""}

ApiTexts == {w.text : w \in WrappedObjects} \cup MalformedTexts

FinishReasons ==
    {None, Some("STOP"), Some("FinishReason.STOP"), Some("SAFETY"), Some("FinishReason.SAFETY"),
     Some("safety"), Some("IMAGE_SAFETY"), Some("SAFETY|STOP"), Some("MAX_TOKENS"),
     Some("FinishReason.MAX_TOKENS"), Some("OTHER")}

\* a reply whose text is s
TextResponse(finish_reason, s) == Response("response", 1, finish_reason, Some(s), <<Some(s)>>)

ProbeTexts ==
    {"{\"risk_category\": \"Liquidity Risk\", \"risk_subcategory\": \"Market Panic\", \"risk_level\": \"Critical\"}",
     "not json at all", ""}

ApiResponses ==
    {Response("raise", 0, None, None, <<>>), Response("response", 0, None, None, <<>>)}
    \cup {TextResponse(fr, t) : fr \in FinishReasons, t \in ProbeTexts}
    \cup {Response("response", 1, fr, None, parts) : fr \in {None, Some("STOP"), Some("SAFETY"), Some("OTHER")},
             parts \in {<<>>, <<None>>, <<Some("")>>, <<Some(" {\"risk_level\": \"LOW\"} ")>>}}
    \cup {TextResponse(Some("STOP"), t) : t \in ApiTexts}

EnglishValues == {Missing, Raw("7"), Str("My account was hacked"), Str("  padded text  ")}

ThreatValues == {Missing, Raw("0"), Raw("2"), Str(""), Str(" CRITICAL ")}

ConfidenceValues ==
    {Missing, Raw("null"), Raw("0.95"), Raw("1.5"), Raw("-0.2"), Raw("0"), Raw("true"), Raw("[]"),
     Raw("NaN"), Raw("Infinity"), Raw("-Infinity"), Str("0.5"), Str("not a number"), Str(" NaN ")}

RiskValues == {Missing, Raw("null"), Str(" reputation/service risk ")}

CommentObjects ==
    {ObjectText(<<"english_text", "threat_level", "confidence_score", "risk">>, <<e, t, c, r>>) :
        e \in EnglishValues, t \in ThreatValues, c \in ConfidenceValues, r \in RiskValues}

WrappedComments ==
    {[text |-> Wrap(f, J), form |-> f, J |-> J] : f \in Forms,
        J \in {ObjectText(<<"english_text", "threat_level", "confidence_score", "risk">>,
                          <<Str("My account was hacked"), Str("High"), Raw("0.95"), r>>) : r \in RiskValues}}

\* replies that carry a category next to, or instead of, the threat level
CategoryComments ==
    {ObjectText(<<"english_text", "threat_level", "category", "risk_category">>,
                <<Str("My account was hacked"), t, Str("Fraud"), Str("Security & Fraud")>>) :
        t \in ThreatValues}

ParserTexts ==
    CommentObjects \cup CategoryComments \cup {w.text : w \in WrappedComments} \cup MalformedTexts

RawCommentIds == {0, 7}

ApiComments == {<<"Lacagtaydii waa la xaday", "My money was stolen">>}

(***************************************************************************)
(* State machine.                                                          *)
(***************************************************************************)
NoResponse == Response("none", 0, None, None, <<>>)

\* the threads calling into the module
NThreads == 2

Threads == 1..NThreads

NoCall == [kind |-> "none", in |-> <<"", "">>, resp |-> NoResponse]

\* the pairs the threads classify and the replies their API calls get
ThreadPairs == {<<"Bank RUN", "">>, <<"hacked", "unauthorized">>}

ThreadResponses ==
    {TextResponse(Some("STOP"), "{\"risk_category\": \"general\", \"risk_subcategory\": \"spam\", \"risk_level\": \"low\"}"),
     Response("raise", 0, None, None, <<>>)}

NotSeen == [known |-> FALSE, ret |-> Record("", "", ""), client |-> "None"]

\* the files process_csv reads: a header and up to MaxRows rows, or nothing
MaxRows == 2

CsvHeaders ==
    {<<"Somali", "English", "risk_category", "risk_subcategory", "risk_level">>,
     <<"text">>,
     <<"risk_level", "Somali", "English", "risk_category", "risk_subcategory">>}

CsvRows ==
    {<<>>,
     <<"  ", "unauthorized">>,
     <<"Bank RUN">>,
     <<"waxaa jira bank run", "my account was hacked, big problem", "General", "Neutral", "Low">>,
     <<" Good ", "", " ">>}

RECURSIVE RowSeqs(_)
RowSeqs(n) ==
    IF n = 0 THEN {<<>>}
    ELSE RowSeqs(n - 1) \cup {Append(rs, r) : rs \in {q \in RowSeqs(n - 1) : Len(q) = n - 1}, r \in CsvRows}

CsvTables == {<<>>} \cup {<<h>> \o rs : h \in CsvHeaders, rs \in RowSeqs(MaxRows)}

\* the texts of the files: the tables as csv.writer writes them, and two files
\* written by hand, with bare line feeds and no line break at the end
CsvFiles ==
    {WriteCsv(t) : t \in CsvTables}
    \cup {"Somali,English\nBank RUN", "\n\"Good, Everyone\",\nhacked"}

CsvResponses ==
    {TextResponse(Some("STOP"), "{\"risk_category\": \"general\", \"risk_subcategory\": \"spam\", \"risk_level\": \"low\"}"),
     TextResponse(Some("SAFETY"), "")}

\* use_api and, with it, the reply each row's request gets
CsvModes ==
    {[use_api |-> FALSE, resps |-> <<>>]}
    \cup {[use_api |-> TRUE, resps |-> r] : r \in [1..MaxRows -> CsvResponses]}

NoCsvCall == [input_file |-> "", output_file |-> FALSE, use_api |-> FALSE]

(***************************************************************************)
(* playwright_worker/main.py: the browser slots.  The handlers run on one  *)
(* event loop, so a request gives way to the others at its awaits only;    *)
(* browser_lock is free whenever a request asks for it, and the bodies of  *)
(* acquire_browser and release_browser hold no await.                      *)
(***************************************************************************)
\* int(os.getenv("MAX_CONCURRENT_BROWSERS", "5")), the variable set to 2
MAX_CONCURRENT_BROWSERS == 2

\* the requests the worker may be serving at once
NRequests == 3

Requests == 1..NRequests

\* the import of playwright.async_api succeeded
async_playwright == "playwright.async_api.async_playwright"

\* a request not arrived; slot tells what acquire_browser answered this request
NoRequest == [at |-> "idle", endpoint |-> "", slot |-> "not asked", status |-> 0]

\* acquire_browser: the status of the HTTPException it raises, 0 if it returns
acquire_browser(active) ==
    IF active >= MAX_CONCURRENT_BROWSERS
    THEN [active_browsers |-> active, raised |-> 503]
    ELSE [active_browsers |-> active + 1, raised |-> 0]

\* release_browser
release_browser(active) == IF active - 1 > 0 THEN active - 1 ELSE 0

\* the handler from its first line to its first await that gives way: the two
\* checks before the try, acquire_browser, and for a refused request the
\* except Exception clause, which answers 500, and the finally clause
EnterHandler(active, endpoint, allowed) ==
    IF async_playwright = "None"
    THEN [active_browsers |-> active,
          request |-> [at |-> "done", endpoint |-> endpoint, slot |-> "not asked", status |-> 500]]
    ELSE IF ~allowed
    THEN [active_browsers |-> active,
          request |-> [at |-> "done", endpoint |-> endpoint, slot |-> "not asked", status |-> 403]]
    ELSE IF acquire_browser(active).raised # 0
    THEN [active_browsers |-> release_browser(acquire_browser(active).active_browsers),
          request |-> [at |-> "done", endpoint |-> endpoint, slot |-> "refused", status |-> 500]]
    ELSE [active_browsers |-> acquire_browser(active).active_browsers,
          request |-> [at |-> "acquired", endpoint |-> endpoint, slot |-> "granted", status |-> 0]]

\* the handler from the end of its browser work on: the answer, and the
\* finally clause
LeaveHandler(active, request, status) ==
    [active_browsers |-> release_browser(active),
     request |-> [request EXCEPT !.at = "done", !.status = status]]

(***************************************************************************)
(* database/database.py: Database without a D1 binding.  A table is the    *)
(* dict of its records by id; the branches taken in this mode hold no      *)
(* await, so a save call is one step.  The time stamps are left out.       *)
(***************************************************************************)
\* Database(db=None)
Database ==
    [is_d1_available |-> FALSE,
     _raw_posts |-> <<>>, _raw_comments |-> <<>>, _processed_comments |-> <<>>,
     _next_post_id |-> 1, _next_comment_id |-> 1, _next_processed_id |-> 1]

\* FindByKey looking at the record stored last only
FindByKey_LastOnly(table, field, key) ==
    IF DOMAIN table # {} /\ table[SetMax(DOMAIN table)][field] = key THEN SetMax(DOMAIN table) ELSE 0

\* for id, data in table.items(): if data.get(field) == key: the id of the
\* first such record in the order of the dict, 0 when the loop ends without one
FindByKey(table, field, key) ==
    IF \E i \in DOMAIN table : table[i][field] = key
    THEN SetMin({i \in DOMAIN table : table[i][field] = key})
    ELSE 0

\* save_raw_post(fb_post_id, content, reaction_count, share_count)
save_raw_post(self, fb_post_id, content, reaction_count, share_count) ==
    IF FindByKey(self._raw_posts, "fb_post_id", fb_post_id) # 0
    THEN [self |-> [self EXCEPT !._raw_posts[FindByKey(self._raw_posts, "fb_post_id", fb_post_id)] =
                        [@ EXCEPT !.content = content, !.reaction_count = reaction_count,
                                  !.share_count = share_count]],
          ret |-> FindByKey(self._raw_posts, "fb_post_id", fb_post_id)]
    ELSE [self |-> [self EXCEPT !._raw_posts = @ @@ (self._next_post_id :>
                                    [id |-> self._next_post_id, fb_post_id |-> fb_post_id, content |-> content,
                                     reaction_count |-> reaction_count, share_count |-> share_count]),
                                !._next_post_id = @ + 1],
          ret |-> self._next_post_id]

\* save_raw_comment(fb_comment_id, post_id, author_name, content, parent_comment_id)
save_raw_comment(self, fb_comment_id, post_id, author_name, content, parent_comment_id) ==
    IF FindByKey(self._raw_comments, "fb_comment_id", fb_comment_id) # 0
    THEN [self |-> [self EXCEPT !._raw_comments[FindByKey(self._raw_comments, "fb_comment_id", fb_comment_id)] =
                        [@ EXCEPT !.post_id = post_id, !.author_name = author_name, !.content = content,
                                  !.parent_comment_id = parent_comment_id]],
          ret |-> FindByKey(self._raw_comments, "fb_comment_id", fb_comment_id)]
    ELSE [self |-> [self EXCEPT !._raw_comments = @ @@ (self._next_comment_id :>
                                    [id |-> self._next_comment_id, fb_comment_id |-> fb_comment_id,
                                     post_id |-> post_id, author_name |-> author_name, content |-> content,
                                     parent_comment_id |-> parent_comment_id]),
                                !._next_comment_id = @ + 1],
          ret |-> self._next_comment_id]

\* save_processed_comment(raw_comment_id, translation_en, ..., is_reviewed):
\* the slugs are not stored in this mode
save_processed_comment(self, raw_comment_id, translation_en, confidence_score, is_reviewed) ==
    IF FindByKey(self._processed_comments, "raw_comment_id", raw_comment_id) # 0
    THEN [self |-> [self EXCEPT !._processed_comments[FindByKey(self._processed_comments, "raw_comment_id",
                                                                raw_comment_id)] =
                        [@ EXCEPT !.translation_en = translation_en, !.confidence_score = confidence_score,
                                  !.dialect = "None", !.keywords = <<>>, !.is_reviewed = is_reviewed]],
          ret |-> FindByKey(self._processed_comments, "raw_comment_id", raw_comment_id)]
    ELSE [self |-> [self EXCEPT !._processed_comments = @ @@ (self._next_processed_id :>
                                    [id |-> self._next_processed_id, raw_comment_id |-> raw_comment_id,
                                     translation_en |-> translation_en, confidence_score |-> confidence_score,
                                     dialect |-> "None", keywords |-> <<>>, is_reviewed |-> is_reviewed]),
                                !._next_processed_id = @ + 1],
          ret |-> self._next_processed_id]

\* the keys and the contents the calls are made with
FbPostIds == {"post_101", "post_102"}

FbCommentIds == {"comment_201", "comment_202"}

DbRawCommentIds == {1, 2}

Contents == {"Bank RUN", "hacked"}

NoDbCall == [method |-> "none", key |-> "", content |-> "", existed |-> FALSE, returned |-> 0]

DbCall(method, key, content, existed, returned_) ==
    [method |-> method, key |-> key, content |-> content, existed |-> existed, returned |-> returned_]

Init ==
    /\ op = "idle"
    /\ somali_text = ""
    /\ english_text = ""
    /\ response = NoResponse
    /\ raw_response_text = ""
    /\ ret = Record("", "", "")
    /\ processed_comment = NoComment
    /\ raised = "none"
    /\ log = <<>>
    /\ json_parsed = NoJson
    /\ _gemini_client = "None"
    /\ clients_constructed = 0
    /\ taxonomy = [VALID_CATEGORIES |-> VALID_CATEGORIES, VALID_RISK_LEVELS |-> VALID_RISK_LEVELS]
    /\ pc = [t \in Threads |-> "idle"]
    /\ call = [t \in Threads |-> NoCall]
    /\ returned = [t \in Threads |-> Record("", "", "")]
    /\ seen = [in \in ThreadPairs |-> NotSeen]
    /\ csv_call = NoCsvCall
    /\ rows = <<>>
    /\ results = <<>>
    /\ processed = 0
    /\ skipped = 0
    /\ json_saved = NoFile
    /\ file_saved = NoText
    /\ active_browsers = 0
    /\ requests = [r \in Requests |-> NoRequest]
    /\ db = Database
    /\ db_call = NoDbCall
    /\ issued = {}

\* a caller invokes analyze_risk_local(somali_text, english_text)
AnalyzeRiskLocal ==
    /\ op = "idle"
    /\ \E in \in LocalInputs :
        /\ op' = "analyze_risk_local"
        /\ somali_text' = in[1]
        /\ english_text' = in[2]
        /\ response' = NoResponse
        /\ raw_response_text' = ""
        /\ ret' = analyze_risk_local(in[1], in[2])
        /\ processed_comment' = NoComment
        /\ raised' = "none"
        /\ log' = <<>>
        /\ json_parsed' = NoJson
        /\ UNCHANGED <<_gemini_client, clients_constructed, taxonomy, service_vars, thread_vars, csv_vars>>

\* get_risk_assessment(somali_text, english_text, use_api=False)
GetRiskAssessmentLocal ==
    /\ op = "idle"
    /\ \E in \in LocalInputs :
        /\ op' = "get_risk_assessment_local"
        /\ somali_text' = in[1]
        /\ english_text' = in[2]
        /\ response' = NoResponse
        /\ raw_response_text' = ""
        /\ ret' = analyze_risk_local(in[1], in[2])
        /\ processed_comment' = NoComment
        /\ raised' = "none"
        /\ log' = <<"local_analysis">>
        /\ json_parsed' = NoJson
        /\ UNCHANGED <<_gemini_client, clients_constructed, taxonomy, service_vars, thread_vars, csv_vars>>

\* get_risk_assessment(somali_text, english_text, use_api=True); resp is what
\* client.models.generate_content does
GetRiskAssessmentApi ==
    /\ op = "idle"
    /\ \E in \in ApiComments, resp \in ApiResponses :
        \E out \in {get_risk_assessment_api(resp)} :
            /\ op' = "get_risk_assessment_api"
            /\ somali_text' = in[1]
            /\ english_text' = in[2]
            /\ response' = resp
            /\ raw_response_text' = ""
            /\ ret' = out.value
            /\ processed_comment' = NoComment
            /\ raised' = out.exc
            /\ log' = out.log
            /\ json_parsed' = out.json
            /\ _gemini_client' = get_gemini_client(_gemini_client)
            /\ clients_constructed' = clients_constructed + ClientsCreated(_gemini_client)
            /\ UNCHANGED <<taxonomy, service_vars, thread_vars, csv_vars>>

\* ModelParser.parse_ai_response(response_text, raw_comment_id); raw_comment_id 0 is None
ParseAiResponse ==
    /\ op = "idle"
    /\ \E text \in ParserTexts, id \in RawCommentIds :
        \E out \in {parse_ai_response(text, id)} :
            /\ op' = "parse_ai_response"
            /\ somali_text' = ""
            /\ english_text' = ""
            /\ response' = NoResponse
            /\ raw_response_text' = text
            /\ ret' = Record("", "", "")
            /\ processed_comment' = IF out.kind = "return" THEN out.value ELSE NoComment
            /\ raised' = out.exc
            /\ log' = out.log
            /\ json_parsed' = out.json
            /\ UNCHANGED <<_gemini_client, clients_constructed, taxonomy, service_vars, thread_vars, csv_vars>>

\* the caller takes the returned value; the call's frame is gone
Return ==
    /\ op # "idle"
    /\ op' = "idle"
    /\ somali_text' = ""
    /\ english_text' = ""
    /\ response' = NoResponse
    /\ raw_response_text' = ""
    /\ ret' = Record("", "", "")
    /\ processed_comment' = NoComment
    /\ raised' = "none"
    /\ log' = <<>>
    /\ json_parsed' = NoJson
    /\ csv_call' = NoCsvCall
    /\ rows' = <<>>
    /\ results' = <<>>
    /\ processed' = 0
    /\ skipped' = 0
    /\ json_saved' = NoFile
    /\ file_saved' = NoText
    /\ UNCHANGED <<_gemini_client, clients_constructed, taxonomy, service_vars, thread_vars>>

\* process_csv(input_file, output_file, json_output_file, use_api)
ProcessCsv ==
    /\ op = "idle"
    /\ \E input_file \in CsvFiles, output_file \in BOOLEAN, mode \in CsvModes :
        \E st \in {process_csv(input_file, output_file, mode)} :
            /\ op' = "process_csv"
            /\ csv_call' = [input_file |-> input_file, output_file |-> output_file, use_api |-> mode.use_api]
            /\ rows' = st.rows
            /\ results' = st.results
            /\ processed' = st.processed
            /\ skipped' = st.skipped
            /\ json_saved' = st.json_saved
            /\ file_saved' = st.file_saved
            /\ raised' = st.exc
            /\ _gemini_client' = IF mode.use_api /\ st.calls > 0
                                 THEN get_gemini_client(_gemini_client) ELSE _gemini_client
            /\ clients_constructed' = clients_constructed +
                    (IF mode.use_api /\ st.calls > 0 THEN ClientsCreated(_gemini_client) ELSE 0)
    /\ somali_text' = ""
    /\ english_text' = ""
    /\ response' = NoResponse
    /\ raw_response_text' = ""
    /\ ret' = Record("", "", "")
    /\ processed_comment' = NoComment
    /\ log' = <<>>
    /\ json_parsed' = NoJson
    /\ UNCHANGED <<taxonomy, service_vars, thread_vars>>

\* a POST /scrape arrives as request r; check_domain_allowed(request.url) says allowed
ScrapePage(r) ==
    /\ requests[r].at = "idle"
    /\ \E allowed \in BOOLEAN :
        \E out \in {EnterHandler(active_browsers, "scrape", allowed)} :
            /\ active_browsers' = out.active_browsers
            /\ requests' = [requests EXCEPT ![r] = out.request]
    /\ UNCHANGED <<frame_vars, _gemini_client, clients_constructed, taxonomy, thread_vars, csv_vars, db_vars>>

\* a POST /screenshot arrives as request r
TakeScreenshot(r) ==
    /\ requests[r].at = "idle"
    /\ \E allowed \in BOOLEAN :
        \E out \in {EnterHandler(active_browsers, "screenshot", allowed)} :
            /\ active_browsers' = out.active_browsers
            /\ requests' = [requests EXCEPT ![r] = out.request]
    /\ UNCHANGED <<frame_vars, _gemini_client, clients_constructed, taxonomy, thread_vars, csv_vars, db_vars>>

\* async_playwright() and p.chromium.launch(...) of request r: the browser is
\* up, or an exception leaves the try
LaunchBrowser(r) ==
    /\ requests[r].at = "acquired"
    /\ \/ /\ requests' = [requests EXCEPT ![r].at = "launched"]
          /\ UNCHANGED active_browsers
       \/ \E out \in {LeaveHandler(active_browsers, requests[r], 500)} :
            /\ active_browsers' = out.active_browsers
            /\ requests' = [requests EXCEPT ![r] = out.request]
    /\ UNCHANGED <<frame_vars, _gemini_client, clients_constructed, taxonomy, thread_vars, csv_vars, db_vars>>

\* the page work of request r and the closing of page, context and browser:
\* the handler returns its answer, or an exception leaves the try
LoadPage(r) ==
    /\ requests[r].at = "launched"
    /\ \E status \in {200, 500} :
        \E out \in {LeaveHandler(active_browsers, requests[r], status)} :
            /\ active_browsers' = out.active_browsers
            /\ requests' = [requests EXCEPT ![r] = out.request]
    /\ UNCHANGED <<frame_vars, _gemini_client, clients_constructed, taxonomy, thread_vars, csv_vars, db_vars>>

\* the answer of request r is sent
Respond(r) ==
    /\ requests[r].at = "done"
    /\ requests' = [requests EXCEPT ![r] = NoRequest]
    /\ UNCHANGED <<active_browsers, frame_vars, _gemini_client, clients_constructed, taxonomy,
                   thread_vars, csv_vars, db_vars>>

NextBrowser ==
    \E r \in Requests :
        \/ ScrapePage(r)
        \/ TakeScreenshot(r)
        \/ LaunchBrowser(r)
        \/ LoadPage(r)
        \/ Respond(r)

SpecBrowser == Init /\ [][NextBrowser]_vars

\* await db.save_raw_post(fb_post_id, content)
SaveRawPost ==
    /\ \E fb_post_id \in FbPostIds, content \in Contents :
        \E out \in {save_raw_post(db, fb_post_id, content, 0, 0)} :
            /\ db' = out.self
            /\ db_call' = DbCall("save_raw_post", fb_post_id, content,
                                 FindByKey(db._raw_posts, "fb_post_id", fb_post_id) # 0, out.ret)
            /\ issued' = IF FindByKey(db._raw_posts, "fb_post_id", fb_post_id) # 0 THEN issued
                         ELSE issued \cup {<<"_raw_posts", fb_post_id, out.ret>>}
    /\ UNCHANGED <<frame_vars, _gemini_client, clients_constructed, taxonomy, thread_vars, csv_vars,
                   browser_vars>>

\* await db.save_raw_comment(fb_comment_id, post_id, content=content)
SaveRawComment ==
    /\ \E fb_comment_id \in FbCommentIds, content \in Contents :
        \E out \in {save_raw_comment(db, fb_comment_id, 1, "None", content, "None")} :
            /\ db' = out.self
            /\ db_call' = DbCall("save_raw_comment", fb_comment_id, content,
                                 FindByKey(db._raw_comments, "fb_comment_id", fb_comment_id) # 0, out.ret)
            /\ issued' = IF FindByKey(db._raw_comments, "fb_comment_id", fb_comment_id) # 0 THEN issued
                         ELSE issued \cup {<<"_raw_comments", fb_comment_id, out.ret>>}
    /\ UNCHANGED <<frame_vars, _gemini_client, clients_constructed, taxonomy, thread_vars, csv_vars,
                   browser_vars>>

\* await db.save_processed_comment(raw_comment_id, translation_en=translation_en)
SaveProcessedComment ==
    /\ \E raw_comment_id \in DbRawCommentIds, translation_en \in Contents :
        \E out \in {save_processed_comment(db, raw_comment_id, translation_en, "None", FALSE)} :
            /\ db' = out.self
            /\ db_call' = DbCall("save_processed_comment", raw_comment_id, translation_en,
                                 FindByKey(db._processed_comments, "raw_comment_id", raw_comment_id) # 0,
                                 out.ret)
            /\ issued' = IF FindByKey(db._processed_comments, "raw_comment_id", raw_comment_id) # 0 THEN issued
                         ELSE issued \cup {<<"_processed_comments", raw_comment_id, out.ret>>}
    /\ UNCHANGED <<frame_vars, _gemini_client, clients_constructed, taxonomy, thread_vars, csv_vars,
                   browser_vars>>

NextDb ==
    \/ SaveRawPost
    \/ SaveRawComment
    \/ SaveProcessedComment

SpecDb == Init /\ [][NextDb]_vars

Next ==
    \/ NextBrowser
    \/ NextDb
    \/ ProcessCsv
    \/ AnalyzeRiskLocal
    \/ GetRiskAssessmentLocal
    \/ GetRiskAssessmentApi
    \/ ParseAiResponse
    \/ Return

Spec == Init /\ [][Next]_vars

\* the local classifier alone
NextLocal ==
    \/ AnalyzeRiskLocal
    \/ GetRiskAssessmentLocal
    \/ Return

SpecLocal == Init /\ [][NextLocal]_vars

\* the AI path alone
NextApi ==
    \/ GetRiskAssessmentApi
    \/ ParseAiResponse
    \/ Return

SpecApi == Init /\ [][NextApi]_vars

\* get_risk_assessment through the API alone
NextRisk ==
    \/ GetRiskAssessmentApi
    \/ Return

SpecRisk == Init /\ [][NextRisk]_vars

\* the classifier, the API path and the file run
NextCsv ==
    \/ AnalyzeRiskLocal
    \/ GetRiskAssessmentApi
    \/ ProcessCsv
    \/ Return

SpecCsv == Init /\ [][NextCsv]_vars

(***************************************************************************)
(* Threads calling into the module at once.  A thread may be switched out *)
(* between any two steps below; what a step does is thread-local or one   *)
(* read or write of the module-level client.                              *)
(***************************************************************************)
\* thread t runs analyze_risk_local(in): it reads its arguments and the tables
\* it builds itself
ThreadAnalyzeRiskLocal(t) ==
    /\ pc[t] = "idle"
    /\ \E in \in ThreadPairs :
        \E out \in {analyze_risk_local(in[1], in[2])} :
            /\ pc' = [pc EXCEPT ![t] = "done"]
            /\ call' = [call EXCEPT ![t] = [kind |-> "analyze_risk_local", in |-> in, resp |-> NoResponse]]
            /\ returned' = [returned EXCEPT ![t] = out]
            /\ seen' = IF seen[in].known THEN seen
                       ELSE [seen EXCEPT ![in] = [known |-> TRUE, ret |-> out, client |-> _gemini_client]]
    /\ UNCHANGED <<frame_vars, _gemini_client, clients_constructed, taxonomy, service_vars, csv_vars>>

\* thread t enters get_risk_assessment(..., use_api=True) and calls get_gemini_client
ThreadGetRiskAssessment(t) ==
    /\ pc[t] = "idle"
    /\ \E in \in ApiComments :
        call' = [call EXCEPT ![t] = [kind |-> "get_risk_assessment", in |-> in, resp |-> NoResponse]]
    /\ pc' = [pc EXCEPT ![t] = "get_gemini_client"]
    /\ UNCHANGED <<frame_vars, _gemini_client, clients_constructed, taxonomy, service_vars, returned, seen, csv_vars>>

\* get_gemini_client: if _gemini_client is not None: return _gemini_client
ThreadClientCheck(t) ==
    /\ pc[t] = "get_gemini_client"
    /\ pc' = [pc EXCEPT ![t] = IF _gemini_client # "None" THEN "generate_content" ELSE "create_client"]
    /\ UNCHANGED <<frame_vars, _gemini_client, clients_constructed, taxonomy, service_vars, call, returned, seen, csv_vars>>

\* get_gemini_client: _gemini_client = genai.Client(api_key=GEMINI_API_KEY)
ThreadClientCreate(t) ==
    /\ pc[t] = "create_client"
    /\ _gemini_client' = "Client"
    /\ clients_constructed' = clients_constructed + 1
    /\ pc' = [pc EXCEPT ![t] = "generate_content"]
    /\ UNCHANGED <<frame_vars, taxonomy, service_vars, call, returned, seen, csv_vars>>

\* the rest of get_risk_assessment: the request and the handling of its reply
ThreadGenerateContent(t) ==
    /\ pc[t] = "generate_content"
    /\ \E resp \in ThreadResponses :
        \E out \in {get_risk_assessment_api(resp)} :
            /\ call' = [call EXCEPT ![t].resp = resp]
            /\ returned' = [returned EXCEPT ![t] = out.value]
    /\ pc' = [pc EXCEPT ![t] = "done"]
    /\ UNCHANGED <<frame_vars, _gemini_client, clients_constructed, taxonomy, service_vars, seen, csv_vars>>

\* thread t's call returns to its caller
ThreadReturn(t) ==
    /\ pc[t] = "done"
    /\ pc' = [pc EXCEPT ![t] = "idle"]
    /\ call' = [call EXCEPT ![t] = NoCall]
    /\ returned' = [returned EXCEPT ![t] = Record("", "", "")]
    /\ UNCHANGED <<frame_vars, _gemini_client, clients_constructed, taxonomy, service_vars, seen, csv_vars>>

NextThreads ==
    \E t \in Threads :
        \/ ThreadAnalyzeRiskLocal(t)
        \/ ThreadGetRiskAssessment(t)
        \/ ThreadClientCheck(t)
        \/ ThreadClientCreate(t)
        \/ ThreadGenerateContent(t)
        \/ ThreadReturn(t)

SpecThreads == Init /\ [][NextThreads]_vars

(***************************************************************************)
(* Properties.                                                             *)
(***************************************************************************)
LocalOps == {"analyze_risk_local", "get_risk_assessment_local"}

ApiCall == op = "get_risk_assessment_api"

LevelNames == {"Low", "Medium", "High", "Critical"}

\* the six category names and their subcategories, as the taxonomy table lists them
TaxonomySubsets ==
    [c \in {"Operational Risk", "Reputational Risk", "Liquidity Risk", "Security & Fraud",
            "Compliance & Legal", "General"} |->
        CASE c = "Operational Risk"   -> {"Technical Failure", "Transaction Issue", "Access & Identity",
                                          "System Downtime", "Technical Support"}
          [] c = "Reputational Risk"  -> {"Customer Service", "Ethical & Trust", "Fee Transparency"}
          [] c = "Liquidity Risk"     -> {"Withdrawal Limits", "Market Panic", "Currency Availability"}
          [] c = "Security & Fraud"   -> {"Phishing & Scams", "Account Takeover", "Data Privacy", "Safety"}
          [] c = "Compliance & Legal" -> {"Account Freezing", "Regulatory/Sharia"}
          [] c = "General"            -> {"Neutral", "Spam/Neutral", "Feedback", "Neutral (Competitor)"}]

\* the text the local classifier matched in this call
CallText == CombinedText(somali_text, english_text)

\* some keyword of the pattern table occurs in text
PatternKeywordOccurs(text) ==
    \E c \in 1..Len(patterns) : \E j \in 1..Len(patterns[c].subcategories) :
        \E k \in 1..Len(patterns[c].subcategories[j].keywords) :
            Contains(text, patterns[c].subcategories[j].keywords[k])

\* the level the severity keyword sets alone give a text
SeverityAlone(text) ==
    IF \E k \in SeqRange(critical_keywords) : Contains(text, k) THEN "Critical"
    ELSE IF \E k \in SeqRange(high_risk_keywords) : Contains(text, k) THEN "High"
    ELSE IF \E k \in SeqRange(medium_risk_keywords) : Contains(text, k) THEN "Medium"
    ELSE "Low"

\* C1: on the local path every returned record is complete: the category is one
\* of the six taxonomy names, the subcategory one of that category's
\* subcategories, the level one of Low, Medium, High, Critical.
C1_LocalRecordComplete ==
    op \in LocalOps =>
        /\ ret.risk_category \in DOMAIN TaxonomySubsets
        /\ ret.risk_subcategory \in TaxonomySubsets[ret.risk_category]
        /\ ret.risk_subcategory \in SeqRange(ValidSubs(ret.risk_category, <<>>))
        /\ ret.risk_level \in LevelNames

C1_Witness ==
    /\ op = "analyze_risk_local"
    /\ somali_text = "hacked"
    /\ english_text = "Everyone"
    /\ ret = Record("Security & Fraud", "Account Takeover", "Critical")

\* C2 as stated: the level of every local result is the one the severity
\* keyword sets alone give, whether or not a pattern keyword matched.
C2_LevelFromSeverityAlone ==
    op \in LocalOps => ret.risk_level = SeverityAlone(CallText)

\* C2 amended: when a pattern keyword matches, the level is the one the
\* severity keyword sets alone give (Critical before High before Medium, else
\* Low); when none matches, the level is Low whatever severity keywords occur.
C2_LevelFromSeverityWhenMatched ==
    op \in LocalOps =>
        ret.risk_level = IF PatternKeywordOccurs(CallText) THEN SeverityAlone(CallText) ELSE "Low"

C2_Witness ==
    /\ op = "analyze_risk_local"
    /\ somali_text = "Everyone"
    /\ english_text = "scam"
    /\ ret.risk_category = "Reputational Risk"
    /\ ret.risk_level = "Critical"

\* the finish reason of the reply of this call, uppercased; "" when there is none
FinishUpper ==
    IF response.kind = "response" /\ response.candidates > 0 /\ ~response.finish_reason.isNone
    THEN Upper(response.finish_reason.s) ELSE ""

\* C3: a finish reason containing SAFETY, in any letter case and even next to
\* STOP, makes the API path return exactly General/Neutral/High without any
\* JSON parsing, whatever the reply's text.
C3_SafetySentinel ==
    (ApiCall /\ Contains(FinishUpper, "SAFETY")) =>
        /\ ret = Record("General", "Neutral", "High")
        /\ ~json_parsed.called
        /\ raised = "none"

C3_Witness ==
    /\ ApiCall
    /\ response.finish_reason = Some("SAFETY|STOP")
    /\ response.text = Some("not json at all")
    /\ ret = Record("General", "Neutral", "High")

\* C4: a finish reason that holds neither SAFETY nor STOP makes the API path
\* return the all-empty record, never the General/Neutral/High sentinel, and no
\* JSON is parsed.
C4_OtherFinishReasonEmpty ==
    (ApiCall /\ FinishUpper # "" /\ ~Contains(FinishUpper, "SAFETY") /\ ~Contains(FinishUpper, "STOP")) =>
        /\ ret = Record("", "", "")
        /\ ~json_parsed.called
        /\ raised = "none"

C4_Witness ==
    /\ ApiCall
    /\ response.finish_reason = Some("MAX_TOKENS")
    /\ \E t \in ProbeTexts : response.text = Some(t) /\ json_loads(t).ok
    /\ ret = Record("", "", "")

\* C5: no raw reply makes the API path of get_risk_assessment or
\* parse_ai_response let an exception out: every call returns, the first a
\* record of three strings, the second a ProcessedCommentCreate or None.
C5_NoExceptionEscapes ==
    /\ ApiCall =>
        /\ raised = "none"
        /\ DOMAIN ret = {"risk_category", "risk_subcategory", "risk_level"}
    /\ op = "parse_ai_response" =>
        /\ raised = "none"
        /\ (processed_comment.isNone \/ processed_comment.confidence_score.kind \in {"none", "num"})

\* a reply that parsed as JSON but is no object of strings, answered by a return
C5_Witness ==
    /\ ApiCall
    /\ json_parsed.called /\ json_parsed.ok
    /\ json_loads(json_parsed.text).v.t = "arr"
    /\ raised = "none"
    /\ ret = Record("", "", "")

\* this call handed json.loads a text it could not parse
ParseFailed == json_parsed.called /\ ~json_parsed.ok

\* what the API path returns for failures that are no parse failure
OtherFailureRecords ==
    {get_risk_assessment_api(resp).value :
        resp \in {TextResponse(Some("MAX_TOKENS"), "not json at all"),
                  Response("raise", 0, None, None, <<>>),
                  Response("response", 0, None, None, <<>>)}}

GivenField(key) ==
    LET parsed == json_loads(json_parsed.text)
    IN  Strip(DictGet(parsed.v, key, JVal("str", "", <<>>)).s)

\* the call parsed an object whose three fields are strings, and returned its record
RecordValidated ==
    /\ ApiCall
    /\ json_parsed.called /\ json_parsed.ok
    /\ "api_error" \notin SeqRange(log)

\* candidate and name are equal or one contains the other, letter case aside
FuzzyMatches(candidate, name) ==
    \/ Contains(Lower(name), Lower(candidate))
    \/ Contains(Lower(candidate), Lower(name))

\* C7 as stated: every record of the API path is closed: category empty or a
\* taxonomy name, subcategory empty or one of that category's, level empty or
\* one of the four.
C7_ClosedOutput ==
    ApiCall =>
        /\ ret.risk_category \in {""} \cup DOMAIN TaxonomySubsets
        /\ \/ ret.risk_subcategory = ""
           \/ /\ ret.risk_category \in DOMAIN TaxonomySubsets
              /\ ret.risk_subcategory \in TaxonomySubsets[ret.risk_category]
        /\ ret.risk_level \in {""} \cup LevelNames

\* C7 amended: each field of the record is empty, or canonical (a taxonomy
\* category; a subcategory of the returned category; one of the four levels),
\* or else the reply's own stripped value, passed through with a warning
\* because nothing matched it: a category no taxonomy name fuzzy-matches, a
\* subcategory no subcategory of the returned category fuzzy-matches (none at
\* all when that category is itself unresolved; without a warning when the
\* category is empty), a level equal to none of the four letter case aside.
C7_ClosedOrPassedThrough ==
    ApiCall =>
        /\ \/ ret.risk_category \in {""} \cup DOMAIN TaxonomySubsets
           \/ /\ RecordValidated
              /\ ret.risk_category = GivenField("risk_category")
              /\ \A name \in DOMAIN TaxonomySubsets : ~FuzzyMatches(ret.risk_category, name)
              /\ "unknown_category" \in SeqRange(log)
        /\ \/ ret.risk_subcategory = ""
           \/ /\ ret.risk_category \in DOMAIN TaxonomySubsets
              /\ ret.risk_subcategory \in TaxonomySubsets[ret.risk_category]
           \/ /\ RecordValidated
              /\ ret.risk_subcategory = GivenField("risk_subcategory")
              /\ ret.risk_category \in DOMAIN TaxonomySubsets =>
                    \A name \in TaxonomySubsets[ret.risk_category] :
                        ~FuzzyMatches(ret.risk_subcategory, name)
              /\ ret.risk_category # "" <=> "unknown_subcategory" \in SeqRange(log)
        /\ \/ ret.risk_level \in {""} \cup LevelNames
           \/ /\ RecordValidated
              /\ ret.risk_level = GivenField("risk_level")
              /\ \A name \in LevelNames : Lower(name) # Lower(ret.risk_level)
              /\ "unknown_level" \in SeqRange(log)

C7_Witness ==
    /\ RecordValidated
    /\ ret = Record("Foo", "Bar", "very high")
    /\ log = <<"unknown_category", "unknown_subcategory", "unknown_level">>

\* C8: a text in which no keyword of the pattern table occurs, the pair
\* ("", "") among them, is classified General/Neutral/Low, whatever severity
\* or positive words it holds.
C8_NoKeywordFallback ==
    op \in LocalOps =>
        /\ ~PatternKeywordOccurs(CallText) => ret = Record("General", "Neutral", "Low")
        /\ (somali_text = "" /\ english_text = "") => ret = Record("General", "Neutral", "Low")

C8_Witness ==
    /\ op = "analyze_risk_local"
    /\ somali_text = "Everyone"
    /\ english_text = "issue"
    /\ SeverityAlone(CallText) = "Critical"
    /\ ret = Record("General", "Neutral", "Low")

\* C9: a valid JSON object text J gives the same record alone, inside a json
\* fence, inside a bare fence and between brace-free, fence-free prose: in each
\* form the text handed to json.loads is J itself and it parses.
C9_WrappersAgree ==
    \A w \in WrappedObjects :
        (ApiCall /\ response = TextResponse(Some("STOP"), w.text)) =>
            /\ json_parsed = [called |-> TRUE, text |-> Strip(w.J), ok |-> TRUE]
            /\ ret = get_risk_assessment_api(TextResponse(Some("STOP"), w.J)).value
            /\ raised = "none"

C9_Witness ==
    /\ ApiCall
    /\ \E w \in WrappedObjects :
        /\ w.form = [kind |-> "prose", before |-> 1, after |-> 1]
        /\ response = TextResponse(Some("STOP"), w.text)
        /\ json_parsed.text = w.J
    /\ ret = Record("Security & Fraud", "Account Takeover", "High")

\* C10: a category that is no exact taxonomy name but fuzzy-matches some name
\* is resolved to the first matching category in the table's order
\* (Reputational to Reputational Risk; of several matches the earliest).
C10_FuzzyFirstInOrder ==
    LET given == GivenField("risk_category")
        names == <<"Operational Risk", "Reputational Risk", "Liquidity Risk", "Security & Fraud",
                   "Compliance & Legal", "General">>
        hits  == {i \in 1..6 : FuzzyMatches(given, names[i])}
    IN  (RecordValidated /\ given # "" /\ given \notin SeqRange(names) /\ hits # {}) =>
            /\ ret.risk_category = names[SetMin(hits)]
            /\ given = "Reputational" => ret.risk_category = "Reputational Risk"

\* "risk" lies in three names; the first of them is returned
C10_Witness ==
    /\ RecordValidated
    /\ GivenField("risk_category") = "risk"
    /\ FuzzyMatches("risk", "Reputational Risk") /\ FuzzyMatches("risk", "Liquidity Risk")
    /\ ret.risk_category = "Operational Risk"

ParserCall == op = "parse_ai_response"

\* the object this call of parse_ai_response parsed
ParsedData == json_loads(json_parsed.text).v

\* the call parsed a JSON object
ParsedObject == ParserCall /\ json_parsed.called /\ json_parsed.ok /\ ParsedData.t = "obj"

\* the value the object gives for key, null when the key is absent
GivenValue(key) == DictGet(ParsedData, key, JNull)

\* english_text, threat_level and risk are such that the model accepts them:
\* a string or null, or (threat_level, risk) any truthy value, which str() turns into a string
OtherFieldsAccepted ==
    /\ GivenValue("english_text").t \in {"null", "str"}
    /\ \A key \in {"threat_level", "risk"} :
        GivenValue(key).t \in {"null", "str"} \/ Truthy(GivenValue(key))

\* the confidence_score given is a finite number, in hundredths
GivenFinite ==
    \/ GivenValue("confidence_score").t = "num" /\ IsDecimal(GivenValue("confidence_score").s)
    \/ GivenValue("confidence_score").t = "str" /\ IsDecimal(Strip(GivenValue("confidence_score").s))

GivenHundredths ==
    IF GivenValue("confidence_score").t = "num" THEN DecimalValue(GivenValue("confidence_score").s)
    ELSE DecimalValue(Strip(GivenValue("confidence_score").s))

\* the confidence_score given is no number and no text of a number
GivenUncoercible ==
    \/ GivenValue("confidence_score").t \in {"arr", "obj"}
    \/ /\ GivenValue("confidence_score").t = "str"
       /\ ~IsDecimal(Strip(GivenValue("confidence_score").s))
       /\ Lower(Strip(GivenValue("confidence_score").s)) \notin
            {"nan", "+nan", "-nan", "inf", "+inf", "-inf", "infinity", "+infinity", "-infinity"}

\* C11: whatever confidence_score an otherwise acceptable object gives,
\* parse_ai_response still returns a result whose confidence_score is null or
\* within [0.0, 1.0]: a number above 1.0 is clamped to 1.0, one below 0.0 to
\* 0.0, a value that cannot be coerced becomes null.
C11_ConfidenceCoercedResultKept ==
    (ParsedObject /\ OtherFieldsAccepted) =>
        /\ ~processed_comment.isNone
        /\ \/ processed_comment.confidence_score.kind = "none"
           \/ /\ processed_comment.confidence_score.kind = "num"
              /\ processed_comment.confidence_score.h \in 0..100
        /\ (GivenFinite /\ GivenHundredths > 100) => processed_comment.confidence_score = Float("num", 100)
        /\ (GivenFinite /\ GivenHundredths < 0) => processed_comment.confidence_score = Float("num", 0)
        /\ GivenUncoercible => processed_comment.confidence_score.kind = "none"

\* C12: a combined text containing the phrase "bank run" is graded Critical,
\* whatever the category scores and whatever other severity keywords it holds.
C12_BankRunCritical ==
    (op \in LocalOps /\ Contains(CallText, "bank run")) => ret.risk_level = "Critical"

\* "bank run" next to a high and a medium keyword, in a comment another category wins
C12_Witness ==
    /\ op = "analyze_risk_local"
    /\ Contains(CallText, "bank run") /\ Contains(CallText, "hacked") /\ Contains(CallText, "problem")
    /\ ret = Record("Security & Fraud", "Account Takeover", "Critical")

\* the <<j, k>> such that keyword k of subcategory j of category c of the pattern table occurs in text
KeywordsPresent(text, c) ==
    {jk \in UNION {{<<j, k>> : k \in 1..Len(patterns[c].subcategories[j].keywords)} :
                      j \in 1..Len(patterns[c].subcategories)} :
        Contains(text, patterns[c].subcategories[jk[1]].keywords[jk[2]])}

\* the number of keywords of category c present in text, each counted once
CategoryCount(text, c) == Cardinality(KeywordsPresent(text, c))

\* the number of keywords of subcategory j of category c present in text
SubcategoryCount(text, c, j) == Cardinality({jk \in KeywordsPresent(text, c) : jk[1] = j})

\* the position of a category name in the pattern table
CategoryIndex(name) == CHOOSE c \in 1..Len(patterns) : patterns[c].category = name

\* text holds "hacked" and "unauthorized" and no critical-signal keyword
HackedUnauthorized(text) ==
    /\ Contains(text, "hacked")
    /\ Contains(text, "unauthorized")
    /\ \A k \in {"bank run", "withdraw everything", "close", "panic", "system down", "outage", "everyone"} :
        ~Contains(text, k)

\* C13 as stated: every text holding "hacked" and "unauthorized" and no
\* critical-signal keyword is classified Security & Fraud / Account Takeover / High.
C13_HackedUnauthorizedAlways ==
    (op \in LocalOps /\ HackedUnauthorized(CallText)) =>
        ret = Record("Security & Fraud", "Account Takeover", "High")

\* C13 amended: such a text is always graded High; it is classified Security &
\* Fraud / Account Takeover when no other category and no other subcategory of
\* Security & Fraud has three or more of its keywords in the text (Account
\* Takeover has at least three: hacked, hack, unauthorized).
C13_HackedUnauthorizedUnlessOutscored ==
    (op \in LocalOps /\ HackedUnauthorized(CallText)) =>
        /\ ret.risk_level = "High"
        /\ SubcategoryCount(CallText, CategoryIndex("Security & Fraud"), 2) >= 3
        /\ ( /\ \A c \in 1..Len(patterns) :
                  c # CategoryIndex("Security & Fraud") => CategoryCount(CallText, c) < 3
             /\ \A j \in {1, 3, 4} : SubcategoryCount(CallText, CategoryIndex("Security & Fraud"), j) < 3 )
           => (ret.risk_category = "Security & Fraud" /\ ret.risk_subcategory = "Account Takeover")

C13_Witness ==
    /\ op = "analyze_risk_local"
    /\ somali_text = "My account was HACKED"
    /\ english_text = "unauthorized login"
    /\ CategoryCount(CallText, CategoryIndex("Operational Risk")) = 1
    /\ ret = Record("Security & Fraud", "Account Takeover", "High")

\* the categories in the order of the taxonomy and of the pattern table
CategoryOrder ==
    <<"Operational Risk", "Reputational Risk", "Liquidity Risk", "Security & Fraud",
      "Compliance & Legal", "General">>

\* C17: when a pattern keyword matches, the category returned is the first, in
\* the order of the taxonomy and of the pattern table, among those whose score
\* is largest, a category's score being the number of its keywords (over all
\* its subcategories) present in the lowercased combined text, each counted
\* once however often it occurs.
C17_FirstCategoryOfMaxScore ==
    /\ [c \in 1..Len(patterns) |-> patterns[c].category] = CategoryOrder
    /\ [c \in 1..Len(VALID_CATEGORIES) |-> VALID_CATEGORIES[c].name] = CategoryOrder
    /\ (op \in LocalOps /\ PatternKeywordOccurs(CallText)) =>
          LET top == SetMax({CategoryCount(CallText, c) : c \in 1..6})
          IN  ret.risk_category = CategoryOrder[SetMin({c \in 1..6 : CategoryCount(CallText, c) = top})]

\* three categories tie with one keyword each, "scam" occurring three times
C17_Witness ==
    /\ op = "analyze_risk_local"
    /\ somali_text = "scam scam scam"
    /\ english_text = "one error"
    /\ CategoryCount(CallText, 1) = 1 /\ CategoryCount(CallText, 2) = 1 /\ CategoryCount(CallText, 4) = 1
    /\ ret.risk_category = "Operational Risk"

\* C18: the subcategory returned belongs to the category returned and has the
\* largest score among that category's subcategories; of several with that
\* score the first in pattern-table order is returned.
C18_FirstSubcategoryOfMaxScore ==
    (op \in LocalOps /\ PatternKeywordOccurs(CallText)) =>
        LET c    == CategoryIndex(ret.risk_category)
            subs == patterns[c].subcategories
            top  == SetMax({SubcategoryCount(CallText, c, j) : j \in 1..Len(subs)})
        IN  /\ ret.risk_subcategory \in TaxonomySubsets[ret.risk_category]
            /\ ret.risk_subcategory =
                  subs[SetMin({j \in 1..Len(subs) : SubcategoryCount(CallText, c, j) = top})].subcategory

\* Customer Service and Fee Transparency tie with two keywords each
C18_Witness ==
    /\ op = "analyze_risk_local"
    /\ somali_text = "rude staff and slow"
    /\ english_text = "hidden fee"
    /\ SubcategoryCount(CallText, 2, 1) = 2 /\ SubcategoryCount(CallText, 2, 3) = 2
    /\ ret.risk_subcategory = "Customer Service"

\* C19 as stated: a reply made of prose, a valid JSON object and trailing
\* prose is parsed by parse_ai_response, which returns a populated result.
C19_ParserExtractsSpan ==
    \A w \in WrappedComments :
        (ParserCall /\ w.form.kind = "prose" /\ raw_response_text = w.text) =>
            /\ json_parsed.ok
            /\ ~processed_comment.isNone
            /\ processed_comment.translation_en = Some("My account was hacked")

\* C20: in the API path a category, subcategory or level that matches no
\* canonical name, even fuzzily or letter case aside, is returned as the reply
\* gave it (stripped), neither emptied nor replaced by a default, and the other
\* fields are validated and returned all the same.
C20_UnmatchedFieldKept ==
    RecordValidated =>
        /\ IF \E name \in DOMAIN TaxonomySubsets : FuzzyMatches(GivenField("risk_category"), name)
           THEN ret.risk_category \in {""} \cup DOMAIN TaxonomySubsets
           ELSE ret.risk_category = GivenField("risk_category")
        /\ IF /\ ret.risk_category \in DOMAIN TaxonomySubsets
              /\ GivenField("risk_subcategory") # ""
              /\ \E name \in TaxonomySubsets[ret.risk_category] :
                    FuzzyMatches(GivenField("risk_subcategory"), name)
           THEN ret.risk_subcategory \in TaxonomySubsets[ret.risk_category]
           ELSE ret.risk_subcategory = GivenField("risk_subcategory")
        /\ IF \E name \in LevelNames : Lower(name) = Lower(GivenField("risk_level"))
           THEN ret.risk_level \in LevelNames /\ Lower(ret.risk_level) = Lower(GivenField("risk_level"))
           ELSE ret.risk_level = GivenField("risk_level")

\* an unknown category next to a level that is still normalised
C20_Witness ==
    /\ RecordValidated
    /\ GivenField("risk_category") = "Foo" /\ GivenField("risk_level") = "high"
    /\ GivenField("risk_subcategory") = "Account Takeover"
    /\ ret = Record("Foo", "Account Takeover", "High")

C16_NoSharedMutableState ==
    /\ clients_constructed <= 1
    /\ \A t \in Threads :
        pc[t] = "done" =>
            returned[t] = IF call[t].kind = "analyze_risk_local"
                          THEN analyze_risk_local(call[t].in[1], call[t].in[2])
                          ELSE get_risk_assessment_api(call[t].resp).value

\* the (category, subcategory) pairs of the module-level table
TaxonomyPairs ==
    UNION {{<<taxonomy.VALID_CATEGORIES[i].name, taxonomy.VALID_CATEGORIES[i].subs[j]>> :
                j \in DOMAIN taxonomy.VALID_CATEGORIES[i].subs} : i \in DOMAIN taxonomy.VALID_CATEGORIES}

\* the (category, subcategory) keys of the keyword table of analyze_risk_local
PatternKeys ==
    UNION {{<<patterns[i].category, patterns[i].subcategories[j].subcategory>> :
                j \in DOMAIN patterns[i].subcategories} : i \in DOMAIN patterns}

\* C15: in every state the module-level taxonomy is the table the module was
\* loaded with, whatever calls of analyze_risk_local, get_risk_assessment and
\* process_csv have run; each subcategory is listed once, under one category;
\* and every (category, subcategory) key of the keyword table is a pair of it.
C15_TaxonomyWellFormedUnchanged ==
    /\ DOMAIN taxonomy = {"VALID_CATEGORIES", "VALID_RISK_LEVELS"}
    /\ {taxonomy.VALID_CATEGORIES[i].name : i \in DOMAIN taxonomy.VALID_CATEGORIES} = DOMAIN TaxonomySubsets
    /\ \A i \in DOMAIN taxonomy.VALID_CATEGORIES :
        {taxonomy.VALID_CATEGORIES[i].subs[j] : j \in DOMAIN taxonomy.VALID_CATEGORIES[i].subs}
            = TaxonomySubsets[taxonomy.VALID_CATEGORIES[i].name]
    /\ {taxonomy.VALID_RISK_LEVELS[i] : i \in DOMAIN taxonomy.VALID_RISK_LEVELS} = LevelNames
    /\ Len(taxonomy.VALID_CATEGORIES) = Cardinality(DOMAIN TaxonomySubsets)
    /\ Len(taxonomy.VALID_RISK_LEVELS) = Cardinality(LevelNames)
    /\ \A i, k \in DOMAIN taxonomy.VALID_CATEGORIES :
        \A j \in DOMAIN taxonomy.VALID_CATEGORIES[i].subs, l \in DOMAIN taxonomy.VALID_CATEGORIES[k].subs :
            taxonomy.VALID_CATEGORIES[i].subs[j] = taxonomy.VALID_CATEGORIES[k].subs[l] => (i = k /\ j = l)
    /\ PatternKeys \subseteq TaxonomyPairs

\* a file run through the API has classified two rows, one of them by
\* matching the reply against the table, and created the client
C15_Witness ==
    /\ op = "process_csv" /\ csv_call.use_api /\ processed = 2
    /\ _gemini_client = "Client"
    /\ \E i \in DOMAIN results : results[i].risk_subcategory = "Spam/Neutral"
    /\ \E i \in DOMAIN results : results[i].risk_level = "High"
    /\ taxonomy.VALID_CATEGORIES = VALID_CATEGORIES

\* the canonical levels equal to the given string, letter case aside
LevelsEqual(given) == {name \in LevelNames : Lower(name) = Lower(given)}

\* C21: in the API path the level is resolved by equality with one of the four
\* canonical levels, letter case aside, and by nothing else: a level that only
\* contains a canonical level, or is contained in one, is returned unchanged
\* and reported as unknown.
C21_LevelExactOnly ==
    RecordValidated =>
        /\ LevelsEqual(GivenField("risk_level")) # {} =>
                /\ ret.risk_level \in LevelsEqual(GivenField("risk_level"))
                /\ "unknown_level" \notin SeqRange(log)
        /\ LevelsEqual(GivenField("risk_level")) = {} =>
                /\ ret.risk_level = GivenField("risk_level")
                /\ GivenField("risk_level") # "" <=> "unknown_level" \in SeqRange(log)

\* "very high" contains a canonical level and stays as it is
C21_Witness ==
    /\ RecordValidated
    /\ GivenField("risk_level") = "very high"
    /\ \E name \in LevelNames : FuzzyMatches(GivenField("risk_level"), name)
    /\ ret.risk_level = "very high"
    /\ "unknown_level" \in SeqRange(log)

\* C26 as stated: a subcategory equal, letter case aside, to a subcategory of
\* the resolved category is returned as that canonical subcategory.
C26_SubcategoryCaseNormalised ==
    (RecordValidated /\ ret.risk_category \in DOMAIN TaxonomySubsets) =>
        \A name \in TaxonomySubsets[ret.risk_category] :
            Lower(name) = Lower(GivenField("risk_subcategory")) => ret.risk_subcategory = name

\* C22 as stated: in every result of parse_ai_response translation_en is the
\* reply's english_text and risk is the reply's risk, each without its
\* leading and trailing whitespace.
C22_PassthroughTrimmed ==
    (ParserCall /\ ~processed_comment.isNone) =>
        /\ GivenValue("english_text").t = "str" =>
                processed_comment.translation_en = Some(Strip(GivenValue("english_text").s))
        /\ GivenValue("risk").t = "str" =>
                processed_comment.risk = Some(Strip(GivenValue("risk").s))

\* C23: in every non-null result of parse_ai_response threat_level_slug is
\* null exactly when the reply has no threat_level (or a null one), whatever
\* category fields the reply carries; otherwise it is a string made from the
\* threat_level value that is its own lowercased, trimmed form.
C23_SlugLowerTrimmedFromThreatLevel ==
    (ParserCall /\ ~processed_comment.isNone) =>
        /\ processed_comment.threat_level_slug.isNone <=> GivenValue("threat_level").t = "null"
        /\ ~processed_comment.threat_level_slug.isNone =>
            /\ processed_comment.threat_level_slug.s
                    = Lower(Strip(processed_comment.threat_level_slug.s))
            /\ processed_comment.threat_level_slug.s = Lower(Strip(PyStr(GivenValue("threat_level"))))

\* a reply with two category fields and no threat level gives a result with a null slug
C23_Witness ==
    /\ ParsedObject /\ ~processed_comment.isNone
    /\ GivenValue("category").s = "Fraud" /\ GivenValue("risk_category").s = "Security & Fraud"
    /\ GivenValue("threat_level").t = "null"
    /\ processed_comment.threat_level_slug.isNone
    /\ processed_comment.translation_en = Some("My account was hacked")

\* the scoring loop of analyze_risk_local leaves best_subcategory unset for these scores
LoopLeavesNone(scores) ==
    BestSubcategoryLoop(SubcategoryScores(scores), BestCategory(CategoryScores(scores)),
                        <<"None", 0>>)[1] = "None"

\* C30: when some keyword of the pattern table occurs in the text, the
\* scoring loop sets best_subcategory, so the first-subcategory fallback is
\* not taken: the subcategory returned is one of the winning category whose
\* own keywords occur in the text.
C30_FallbackUnreachable ==
    (op \in LocalOps /\ PatternKeywordOccurs(CallText)) =>
        /\ \A scores \in {Scores(CallText)} : ~LoopLeavesNone(scores)
        /\ \E j \in 1..Len(patterns[CategoryIndex(ret.risk_category)].subcategories) :
            /\ patterns[CategoryIndex(ret.risk_category)].subcategories[j].subcategory
                    = ret.risk_subcategory
            /\ SubcategoryCount(CallText, CategoryIndex(ret.risk_category), j) > 0

\* the winning category's first subcategory has no keyword in the text, and
\* the loop returned the second
C30_Witness ==
    /\ op = "get_risk_assessment_local"
    /\ Contains(CallText, "hacked")
    /\ SubcategoryCount(CallText, CategoryIndex("Security & Fraud"), 1) = 0
    /\ ret.risk_category = "Security & Fraud"
    /\ ret.risk_subcategory = "Account Takeover"

\* the cells of a row process_csv is to leave alone: no Somali cell, or one
\* holding white space at most, or a risk_category cell holding more than that
RowToSkip(row, idx) ==
    \/ Len(row) <= idx.somali
    \/ Strip(row[idx.somali + 1]) = ""
    \/ (Len(row) > idx.category /\ Strip(row[idx.category + 1]) # "")

\* the same with a risk_category cell that holds anything at all
RowToSkipLiteral(row, idx) ==
    \/ Len(row) <= idx.somali
    \/ row[idx.somali + 1] = ""
    \/ (Len(row) > idx.category /\ row[idx.category + 1] # "")

RowKept(before, after, entries, i) ==
    /\ after[i + 1] = before[i + 1]
    /\ \A e \in 1..Len(entries) : entries[e].row_number # i

LocalMode == [use_api |-> FALSE, resps |-> <<>>]

\* C28: a run of process_csv over a file with a header ends without an
\* exception, processed + skipped is the number of data rows, and the saved
\* results hold one entry per processed row, by ascending row_number
C28_EveryRowCountedOnce ==
    (op = "process_csv" /\ rows # <<>>) =>
        /\ raised = "none"
        /\ processed + skipped = Len(rows) - 1
        /\ json_saved.written
        /\ Len(json_saved.content) = processed
        /\ \A i, j \in 1..Len(json_saved.content) :
               i < j => json_saved.content[i].row_number < json_saved.content[j].row_number

RowsToSkipKept(before, after, entries, idx) ==
    \A i \in 1..(Len(before) - 1) : RowToSkip(before[i + 1], idx) => RowKept(before, after, entries, i)

\* C29: a row whose risk_category cell holds more than white space, or whose
\* Somali cell is missing, empty or white space, keeps all its cells and has
\* no entry in the results; and a local run over the CSV file that a local run
\* wrote processes no row
C29_SkippedRowsKept ==
    (op = "process_csv" /\ rows # <<>>) =>
        /\ RowsToSkipKept(ReadCsv(csv_call.input_file), rows, results, ColumnIndices(rows[1]))
        /\ (~csv_call.use_api /\ file_saved.written) =>
               process_csv(file_saved.content, FALSE, LocalMode).processed = 0

FilledRowKept(before, after, idx) ==
    \E i \in 2..Len(before) :
        /\ Len(before[i]) > idx.category
        /\ before[i][idx.category + 1] = "General"
        /\ after[i] = before[i]

\* a local run that skipped a filled row, classified another row and wrote
\* the CSV file
C29_Witness ==
    /\ op = "process_csv" /\ ~csv_call.use_api /\ file_saved.written
    /\ processed = 1 /\ skipped = 1
    /\ FilledRowKept(ReadCsv(csv_call.input_file), rows, ColumnIndices(rows[1]))

RowsToSkipLiteralKept(before, after, entries, idx) ==
    \A i \in 1..(Len(before) - 1) : RowToSkipLiteral(before[i + 1], idx) => RowKept(before, after, entries, i)

\* C29 as stated: a row whose risk_category cell holds anything at all, or
\* whose Somali cell is missing or empty, keeps all its cells and has no entry
\* in the results
C29_NonEmptyCategoryKept ==
    (op = "process_csv" /\ rows # <<>>) =>
        RowsToSkipLiteralKept(ReadCsv(csv_call.input_file), rows, results, ColumnIndices(rows[1]))

\* the requests between their acquire_browser call and their release_browser call
RunningBrowser == {r \in Requests : requests[r].at \in {"acquired", "launched"}}

\* C24: the requests running a browser are never more than
\* MAX_CONCURRENT_BROWSERS, and active_browsers is their number
C24_CounterIsRunningBrowsers ==
    /\ Cardinality(RunningBrowser) <= MAX_CONCURRENT_BROWSERS
    /\ active_browsers = Cardinality(RunningBrowser)

\* request r has just asked for a slot with the counter at the limit
RefusedNow(r) == requests[r].slot # "refused" /\ requests'[r].slot = "refused"

\* request r, which holds a slot, has just reached its release_browser call
ReleasedNow(r) == requests[r].slot = "granted" /\ requests[r].at # "done" /\ requests'[r].at = "done"

\* C25: a request that asks for a slot while active_browsers is at the limit
\* is answered 503 and leaves the counter as it was, and the counter goes
\* down only in a step of a request that holds a slot
C25_RefusedWith503CounterKept ==
    [][/\ \A r \in Requests :
            RefusedNow(r) => requests'[r].status = 503 /\ active_browsers' = active_browsers
       /\ active_browsers' < active_browsers => \E r \in Requests : ReleasedNow(r)]_vars

\* no two records of the table share the key, every record sits under its own
\* id, and every id is below the next one to be given
TableSound(table, field, next_id) ==
    /\ \A i, j \in DOMAIN table : table[i][field] = table[j][field] => i = j
    /\ \A i \in DOMAIN table : table[i].id = i /\ i < next_id

\* the ids created for the table are its ids, one per key and one key per id
IssuedSound(table, field, name) ==
    /\ {e[3] : e \in {x \in issued : x[1] = name}} = DOMAIN table
    /\ \A e \in {x \in issued : x[1] = name} : table[e[3]][field] = e[2]
    /\ \A e, f \in {x \in issued : x[1] = name} : (e[2] = f[2] \/ e[3] = f[3]) => e = f

\* the table, its key and the field of the content for each save method
TableOf(method) ==
    CASE method = "save_raw_post" -> [name |-> "_raw_posts", field |-> "fb_post_id", content |-> "content"]
      [] method = "save_raw_comment" -> [name |-> "_raw_comments", field |-> "fb_comment_id", content |-> "content"]
      [] method = "save_processed_comment" ->
            [name |-> "_processed_comments", field |-> "raw_comment_id", content |-> "translation_en"]

\* the call returned the id created for its key, and the record under that id
\* holds the key and the content of the call
LastCallSound(table, t) ==
    /\ <<t.name, db_call.key, db_call.returned>> \in issued
    /\ table[db_call.returned][t.field] = db_call.key
    /\ table[db_call.returned][t.content] = db_call.content

\* C27: in in-memory mode no two records of a table share the natural key,
\* the ids are unique and never given twice, and a save of a key returns the
\* id created for the key by its first save, the record under it holding what
\* the call gave
C27_OneRecordPerKey ==
    /\ TableSound(db._raw_posts, "fb_post_id", db._next_post_id)
    /\ TableSound(db._raw_comments, "fb_comment_id", db._next_comment_id)
    /\ TableSound(db._processed_comments, "raw_comment_id", db._next_processed_id)
    /\ IssuedSound(db._raw_posts, "fb_post_id", "_raw_posts")
    /\ IssuedSound(db._raw_comments, "fb_comment_id", "_raw_comments")
    /\ IssuedSound(db._processed_comments, "raw_comment_id", "_processed_comments")
    /\ db_call.method # "none" => LastCallSound(db[TableOf(db_call.method).name], TableOf(db_call.method))

\* a processed comment saved again for the raw comment saved first, after a
\* second one was stored: the call returns 1 and the record holds the new text
C27_Witness ==
    /\ db_call.method = "save_processed_comment" /\ db_call.existed
    /\ db_call.returned = 1 /\ db_call.content = "hacked"
    /\ DOMAIN db._processed_comments = {1, 2}
    /\ db._processed_comments[1].translation_en = "hacked"
    /\ db._next_processed_id = 3

====
